---- MODULE Spec2Model ----
(***************************************************************************)
(* kconduit: the AI command interpreter (pkg/ui/ai_assistant.go), the      *)
(* topic-deletion dialog (pkg/ui/delete_topic.go) and the multi-partition  *)
(* consumer (pkg/kafka client, ConsumeMessages).                           *)
(***************************************************************************)
EXTENDS Integers, Sequences, FiniteSets, TLC

\* ------------------------------------------------------------------ bounds
MaxChunks == 2          \* text fragments in one model response
MaxPartitions == 2      \* largest partition count a request asks for

\* ------------------------------------------------------------ the cluster
TopicNames == {"a", "b"}
ConfigKeys == {"k1", "k2"}

VARIABLES
  topics,      \* cluster: topic name -> partition count (0: no such topic)
  topicCfg,    \* cluster: topic name -> config key -> value ("" unset)
  calls,       \* client calls issued so far, in issue order
  aiPc,        \* "idle" | "batch" | "single" | "shown"
  aiResult,    \* the outcome carried by the AIResponseMsg of the execution
  response,    \* the completion text handed to parseAndExecuteCommand
  commands,    \* the decoded action records
  stepIdx,     \* executeMultipleCommands: loop index i (1-based)
  responses    \* executeMultipleCommands: the "Step n: ..." lines

aiVars == <<topics, topicCfg, calls, aiPc, aiResult, response, commands, stepIdx, responses>>

\* ------------------------------------------------- the text of a response
\* A response is a sequence of tokens: a brace, a run of prose, a Markdown
\* fence marker, the scalar fields of a JSON object, or the entries of a
\* nested "configs" or "filter" object.
Tok(t, v) == [t |-> t, v |-> v]
LB == Tok("{", <<>>)
RB == Tok("}", <<>>)
TXT == Tok("txt", <<>>)
FENCE == Tok("fence", <<>>)
Body(action, name, topic, partitions) ==
  Tok("body", [action |-> action, name |-> name, topic |-> topic, partitions |-> partitions])
Cfg(kv) == Tok("cfg", kv)
Flt(kv) == Tok("flt", kv)

\* configs values: a JSON string, or a JSON number (not a string)
NoConfigs == [has |-> FALSE, kv |-> <<>>]

\* the two strings.ReplaceAll calls that drop the Markdown code-fence markers
RECURSIVE StripFences(_)
StripFences(s) ==
  IF s = <<>> THEN <<>>
  ELSE IF Head(s).t = "fence" THEN StripFences(Tail(s))
       ELSE <<Head(s)>> \o StripFences(Tail(s))

\* strings.Index(remaining, "{"): 0 when there is none
RECURSIVE IndexOpen(_, _)
IndexOpen(s, i) ==
  IF i > Len(s) THEN 0
  ELSE IF s[i].t = "{" THEN i ELSE IndexOpen(s, i + 1)

\* the brace-depth scan from start: the index of the matching "}" or 0
RECURSIVE MatchEnd(_, _, _)
MatchEnd(s, i, braceCount) ==
  IF i > Len(s) THEN 0
  ELSE IF s[i].t = "{" THEN MatchEnd(s, i + 1, braceCount + 1)
  ELSE IF s[i].t = "}" THEN
         IF braceCount - 1 = 0 THEN i ELSE MatchEnd(s, i + 1, braceCount - 1)
  ELSE MatchEnd(s, i + 1, braceCount)

\* json.Unmarshal of one span into map[string]interface{}
Decode(span) ==
  IF Len(span) = 2 THEN
    [ok |-> TRUE,
     cmd |-> [action |-> "#missing", name |-> "", topic |-> "", partitions |-> 0,
              configs |-> NoConfigs, filter |-> NoConfigs]]
  ELSE IF Len(span) = 3 /\ span[2].t = "body" THEN
    [ok |-> TRUE,
     cmd |-> [action |-> span[2].v.action, name |-> span[2].v.name,
              topic |-> span[2].v.topic, partitions |-> span[2].v.partitions,
              configs |-> NoConfigs, filter |-> NoConfigs]]
  ELSE IF Len(span) = 6 /\ span[2].t = "body" /\ span[3].t = "{"
          /\ span[4].t = "cfg" /\ span[5].t = "}" THEN
    [ok |-> TRUE,
     cmd |-> [action |-> span[2].v.action, name |-> span[2].v.name,
              topic |-> span[2].v.topic, partitions |-> span[2].v.partitions,
              configs |-> [has |-> TRUE, kv |-> span[4].v], filter |-> NoConfigs]]
  ELSE IF Len(span) = 6 /\ span[2].t = "body" /\ span[3].t = "{"
          /\ span[4].t = "flt" /\ span[5].t = "}" THEN
    [ok |-> TRUE,
     cmd |-> [action |-> span[2].v.action, name |-> span[2].v.name,
              topic |-> span[2].v.topic, partitions |-> span[2].v.partitions,
              configs |-> NoConfigs, filter |-> [has |-> TRUE, kv |-> span[4].v]]]
  ELSE [ok |-> FALSE, cmd |-> <<>>]

\* the extraction loop of parseAndExecuteCommand
RECURSIVE ExtractCommands(_)
ExtractCommands(remaining) ==
  LET start == IndexOpen(remaining, 1) IN
  IF start = 0 THEN <<>>
  ELSE LET end == MatchEnd(remaining, start, 0) IN
    IF end = 0 THEN <<>>
    ELSE LET d == Decode(SubSeq(remaining, start, end))
             rest == SubSeq(remaining, end + 1, Len(remaining))
         IN (IF d.ok /\ d.cmd.action # "#missing" THEN <<d.cmd>> ELSE <<>>)
            \o ExtractCommands(rest)

\* ------------------------------------------------------ the kafka client
\* The cluster as the client sees it, with the calls issued so far.
Cluster(tp, cfg, cl) == [topics |-> tp, cfg |-> cfg, calls |-> cl]

Call(op, topic, key, step, err) ==
  [op |-> op, topic |-> topic, key |-> key, step |-> step, err |-> err]

\* Client.CreateTopic; fail: the broker call fails for a transient reason
CreateTopic(st, name, numPartitions, fail, step) ==
  LET n == IF numPartitions < 1 THEN 1 ELSE numPartitions
      err == name = "" \/ fail \/ st.topics[name] > 0
  IN [err |-> err,
      st |-> Cluster(IF err THEN st.topics ELSE [st.topics EXCEPT ![name] = n],
                     st.cfg,
                     Append(st.calls, Call("CreateTopic", name, "", step, err)))]

\* Client.DeleteTopic
DeleteTopic(st, name, fail, step) ==
  LET err == name = "" \/ fail \/ st.topics[name] = 0
  IN [err |-> err,
      st |-> Cluster(IF err THEN st.topics ELSE [st.topics EXCEPT ![name] = 0],
                     IF err THEN st.cfg
                     ELSE [st.cfg EXCEPT ![name] = [k \in ConfigKeys |-> ""]],
                     Append(st.calls, Call("DeleteTopic", name, "", step, err)))]

ModifyTopicPartitionsAnyCount(st, topicName, numPartitions, fail, step) ==
  LET err == \/ topicName \notin TopicNames
             \/ numPartitions < 1
             \/ fail
             \/ st.topics[topicName] = 0
  IN [err |-> err,
      st |-> Cluster(IF err THEN st.topics
                     ELSE [st.topics EXCEPT ![topicName] = numPartitions],
                     st.cfg,
                     Append(st.calls, Call("ModifyTopicPartitions", topicName, "", step, err)))]

\* Client.ModifyTopicPartitions
ModifyTopicPartitions(st, topicName, numPartitions, fail, step) ==
  LET err == \/ topicName \notin TopicNames
             \/ numPartitions < 1
             \/ fail
             \/ st.topics[topicName] = 0
             \/ numPartitions <= st.topics[topicName]
  IN [err |-> err,
      st |-> Cluster(IF err THEN st.topics
                     ELSE [st.topics EXCEPT ![topicName] = numPartitions],
                     st.cfg,
                     Append(st.calls, Call("ModifyTopicPartitions", topicName, "", step, err)))]

\* Client.UpdateTopicConfig
UpdateTopicConfig(st, topicName, configKey, configValue, fail, step) ==
  LET err == topicName = "" \/ configKey = "" \/ fail \/ st.topics[topicName] = 0
  IN [err |-> err,
      st |-> Cluster(st.topics,
                     IF err THEN st.cfg
                     ELSE [st.cfg EXCEPT ![topicName][configKey] = configValue],
                     Append(st.calls, Call("UpdateTopicConfig", topicName, configKey, step, err)))]

\* Client.GetTopicDetails: the topic list sorted by name; the calls the
\* interpreter makes never find a fresh cache (topicsLastFetched is never set)
GetTopicDetails(st, fail, step) ==
  [err |-> fail,
   list |-> IF fail THEN <<>>
            ELSE SelectSeq(<<"a", "b">>, LAMBDA n : st.topics[n] > 0),
   st |-> Cluster(st.topics, st.cfg,
                  Append(st.calls, Call("GetTopicDetails", "", "", step, fail)))]

QueryAsUpdate(st, op, topic, fail, step) ==
  UpdateTopicConfig(st, topic, "k1", "v", fail, step)

\* a read-only client query (GetConsumerGroups, GetTopicConfig)
Query(st, op, topic, fail, step) ==
  [err |-> fail,
   st |-> Cluster(st.topics, st.cfg, Append(st.calls, Call(op, topic, "", step, fail)))]

\* for key, value := range configs { if strValue, ok := value.(string); ok {
\*   UpdateTopicConfig(topic, key, strValue) ... } } in the iteration order
\* keys; acc counts the successes and the failures
RECURSIVE ApplyConfigs(_, _, _, _, _, _)
ApplyConfigs(acc, topic, kv, keys, fails, step) ==
  IF keys = <<>> THEN acc
  ELSE LET key == Head(keys) IN
       IF kv[key] = "#num" THEN ApplyConfigs(acc, topic, kv, Tail(keys), fails, step)
       ELSE LET r == UpdateTopicConfig(acc.st, topic, key, kv[key],
                                       <<topic, key>> \in fails, step)
            IN ApplyConfigs([st |-> r.st,
                             changes |-> acc.changes + (IF r.err THEN 0 ELSE 1),
                             errors |-> acc.errors + (IF r.err THEN 1 ELSE 0)],
                            topic, kv, Tail(keys), fails, step)

\* the orders in which a Go range statement may visit the keys of a map
RECURSIVE KeyOrders(_)
KeyOrders(ks) ==
  IF ks = {} THEN {<<>>}
  ELSE UNION {{<<k>> \o o : o \in KeyOrders(ks \ {k})} : k \in ks}

\* the keys of a configs map that hold a JSON string
StringKeys(kv) == {k \in DOMAIN kv : kv[k] # "#num"}

NoAcc(st) == [st |-> st, changes |-> 0, errors |-> 0]

\* -------------------------------------------- executeMultipleCommands
\* Every client call may fail: fails is the set of <<topic, key>> targets
\* whose call fails in this step, keys the order the configs map is ranged in.

\* case "modify_partitions"
BatchModifyPartitions(st, command, i, fails) ==
  IF command.topic # "" /\ command.partitions > 0 THEN
    LET r == ModifyTopicPartitions(st, command.topic, command.partitions,
                                   <<command.topic, "">> \in fails, i)
    IN [st |-> r.st, result |-> IF r.err THEN "fail" ELSE "ok"]
  ELSE [st |-> st, result |-> ""]

\* case "modify_config"
BatchModifyConfig(st, command, i, keys, fails) ==
  IF command.topic # "" /\ command.configs.has THEN
    LET acc == ApplyConfigs(NoAcc(st), command.topic, command.configs.kv, keys, fails, i)
    IN [st |-> acc.st,
        result |-> IF acc.errors > 0 THEN "partial"
                   ELSE IF acc.changes > 0 THEN "ok" ELSE ""]
  ELSE [st |-> st, result |-> ""]

\* case "create_topic"
BatchCreateTopic(st, command, i, keys, fails) ==
  IF command.name # "" THEN
    LET r == CreateTopic(st, command.name, command.partitions,
                         <<command.name, "">> \in fails, i)
    IN IF r.err THEN [st |-> r.st, result |-> "fail"]
       ELSE [st |-> IF command.configs.has
                    THEN ApplyConfigs(NoAcc(r.st), command.name, command.configs.kv,
                                      keys, fails, i).st
                    ELSE r.st,
             result |-> "ok"]
  ELSE [st |-> st, result |-> ""]

BatchDefaultDeletes(st, command, i) ==
  IF command.action = "delete_topic"
  THEN [st |-> DeleteTopic(st, command.topic, FALSE, i).st, result |-> "ok"]
  ELSE [st |-> st, result |-> ""]

\* the switch has no default: any other action does nothing
BatchDefault(st, command, i) == [st |-> st, result |-> ""]

\* the body of one iteration of the loop over commands
BatchDispatch(st, command, i, keys, fails) ==
  IF command.action = "#nonstring" THEN [st |-> st, result |-> ""]
  ELSE IF command.action = "modify_partitions" THEN BatchModifyPartitions(st, command, i, fails)
  ELSE IF command.action = "modify_config" THEN BatchModifyConfig(st, command, i, keys, fails)
  ELSE IF command.action = "create_topic" THEN BatchCreateTopic(st, command, i, keys, fails)
  ELSE BatchDefault(st, command, i)

BatchPickReversed(cmds, i) == cmds[Len(cmds) - i + 1]

\* for i, command := range commands: the record of iteration i
BatchPick(cmds, i) == cmds[i]

BatchAdvanceStopsOnFailure(i, result) == IF result = "fail" THEN i + MaxChunks ELSE i + 1

\* the loop goes on to the next record whatever the result of this one
BatchAdvance(i, result) == i + 1

\* if result != "" { responses = append(responses, "Step i: result") }
BatchAppend(resps, i, result) ==
  IF result # "" THEN Append(resps, [step |-> i, result |-> result]) ELSE resps

\* the targets whose client call can fail while command executes
FailTargets(command) ==
  LET keys == IF command.configs.has THEN StringKeys(command.configs.kv) ELSE {}
      names == IF command.action \in {"modify_all_partitions", "modify_all_configs",
                                      "query_topics"}
               THEN TopicNames \cup {""}
               ELSE IF command.action = "create_topic" THEN {command.name}
               ELSE IF command.action \in {"modify_partitions", "modify_config"}
               THEN {command.topic}
               ELSE {""}
  IN names \X (keys \cup {""})

ConfigOrders(command) ==
  IF command.configs.has THEN KeyOrders(DOMAIN command.configs.kv) ELSE {<<>>}

\* ------------------------------- parseAndExecuteCommand, a single command
SingleCreateTopicThenConfigs(st, command, keys, fails) ==
  IF command.name # "" THEN
    LET r == CreateTopic(st, command.name, command.partitions,
                         <<command.name, "">> \in fails, 0)
    IN [st |-> IF command.configs.has
               THEN ApplyConfigs(NoAcc(r.st), command.name, command.configs.kv,
                                 keys, fails, 0).st
               ELSE r.st,
        result |-> IF r.err THEN "fail" ELSE "ok"]
  ELSE [st |-> st, result |-> "none"]

SingleCreateTopic(st, command, keys, fails) ==
  IF command.name # "" THEN
    LET r == CreateTopic(st, command.name, command.partitions,
                         <<command.name, "">> \in fails, 0)
    IN IF r.err THEN [st |-> r.st, result |-> "fail"]
       ELSE [st |-> IF command.configs.has
                    THEN ApplyConfigs(NoAcc(r.st), command.name, command.configs.kv,
                                      keys, fails, 0).st
                    ELSE r.st,
             result |-> "ok"]
  ELSE [st |-> st, result |-> "none"]

SingleModifyPartitions(st, command, fails) ==
  IF command.topic # "" /\ command.partitions > 0 THEN
    LET r == ModifyTopicPartitions(st, command.topic, command.partitions,
                                   <<command.topic, "">> \in fails, 0)
    IN [st |-> r.st, result |-> IF r.err THEN "fail" ELSE "ok"]
  ELSE [st |-> st, result |-> "none"]

SingleModifyConfig(st, command, keys, fails) ==
  IF command.topic # "" /\ command.configs.has THEN
    LET acc == ApplyConfigs(NoAcc(st), command.topic, command.configs.kv, keys, fails, 0)
    IN [st |-> acc.st, result |-> IF acc.errors > 0 THEN "partial" ELSE "ok"]
  ELSE [st |-> st, result |-> "none"]

NeedsPartitionsOrEqual(current, partitions) == current <= partitions

\* if topic.Partitions < int(partitions): partitions are only increased
NeedsPartitions(current, partitions) == current < partitions

RECURSIVE AllPartitionsLoopRequery(_, _, _, _, _)
AllPartitionsLoopRequery(st, snapshot, list, partitions, fails) ==
  IF list = <<>> THEN st
  ELSE LET topic == Head(list)
           again == GetTopicDetails(st, FALSE, 0).st
       IN IF NeedsPartitions(again.topics[topic], partitions)
          THEN AllPartitionsLoopRequery(
                 ModifyTopicPartitions(again, topic, partitions, <<topic, "">> \in fails, 0).st,
                 snapshot, Tail(list), partitions, fails)
          ELSE AllPartitionsLoopRequery(again, snapshot, Tail(list), partitions, fails)

\* for _, topic := range topics { if topic.Partitions < partitions { ... } }
RECURSIVE AllPartitionsLoop(_, _, _, _, _)
AllPartitionsLoop(st, snapshot, list, partitions, fails) ==
  IF list = <<>> THEN st
  ELSE LET topic == Head(list) IN
       IF NeedsPartitions(snapshot[topic], partitions)
       THEN AllPartitionsLoop(ModifyTopicPartitions(st, topic, partitions,
                                                    <<topic, "">> \in fails, 0).st,
                              snapshot, Tail(list), partitions, fails)
       ELSE AllPartitionsLoop(st, snapshot, Tail(list), partitions, fails)

SingleModifyAllPartitions(st, command, fails) ==
  IF command.partitions > 0 THEN
    LET t == GetTopicDetails(st, <<"", "">> \in fails, 0)
    IN IF t.err THEN [st |-> t.st, result |-> "fail"]
       ELSE [st |-> AllPartitionsLoop(t.st, st.topics, t.list, command.partitions, fails),
             result |-> "ok"]
  ELSE [st |-> st, result |-> "none"]

\* for _, topic := range topics { for key, value := range configs { ... } }
RECURSIVE AllConfigsLoop(_, _, _, _, _)
AllConfigsLoop(st, list, kv, keys, fails) ==
  IF list = <<>> THEN st
  ELSE AllConfigsLoop(ApplyConfigs(NoAcc(st), Head(list), kv, keys, fails, 0).st,
                      Tail(list), kv, keys, fails)

SingleModifyAllConfigs(st, command, keys, fails) ==
  IF command.configs.has THEN
    LET t == GetTopicDetails(st, <<"", "">> \in fails, 0)
    IN IF t.err THEN [st |-> t.st, result |-> "fail"]
       ELSE [st |-> AllConfigsLoop(t.st, t.list, command.configs.kv, keys, fails),
             result |-> "ok"]
  ELSE [st |-> st, result |-> "none"]

SingleQueryConsumerGroups(st, fails) ==
  LET r == Query(st, "GetConsumerGroups", "", <<"", "">> \in fails, 0)
  IN [st |-> r.st, result |-> IF r.err THEN "fail" ELSE "ok"]

\* the compression filter: "none" also matches a topic that has no
\* compression.type or the producer default; k1 stands for compression.type
Include(compression, compressionType) ==
  IF compression = "none" THEN compressionType \in {"", "producer", "none"}
  ELSE compressionType = compression

\* GetTopicConfig for each topic of list in turn; kept: the topics included
RECURSIVE ConfigReads(_, _, _, _, _)
ConfigReads(st, kept, list, compression, fails) ==
  IF list = <<>> THEN [st |-> st, kept |-> kept]
  ELSE LET topic == Head(list)
           r == Query(st, "GetTopicConfig", topic, <<topic, "">> \in fails, 0)
           include == r.err \/ Include(compression, st.cfg[topic]["k1"])
       IN ConfigReads(r.st, IF include THEN Append(kept, topic) ELSE kept,
                      Tail(list), compression, fails)

\* case "query_topics": the topics are fetched and filtered; with a
\* compression filter the config of every topic is read for the filter and
\* that of every topic kept is read again for the listing
SingleQueryTopics(st, command, fails) ==
  LET t == GetTopicDetails(st, <<"", "">> \in fails, 0)
  IN IF t.err THEN [st |-> t.st, result |-> "fail"]
     ELSE IF command.filter.has /\ "compression" \in DOMAIN command.filter.kv
     THEN LET first == ConfigReads(t.st, <<>>, t.list, command.filter.kv["compression"], fails)
              second == ConfigReads(first.st, <<>>, first.kept,
                                    command.filter.kv["compression"], fails)
          IN [st |-> second.st, result |-> "ok"]
     ELSE [st |-> t.st, result |-> "ok"]

\* no case of the switch matches: return nil
SingleDefault(st, command) == [st |-> st, result |-> "none"]

\* the switch on the action of the only command
SingleDispatch(st, command, keys, fails) ==
  IF command.action = "#nonstring" THEN [st |-> st, result |-> "none"]
  ELSE IF command.action = "create_topic" THEN SingleCreateTopic(st, command, keys, fails)
  ELSE IF command.action = "modify_partitions" THEN SingleModifyPartitions(st, command, fails)
  ELSE IF command.action = "modify_config" THEN SingleModifyConfig(st, command, keys, fails)
  ELSE IF command.action = "modify_all_partitions"
       THEN SingleModifyAllPartitions(st, command, fails)
  ELSE IF command.action = "modify_all_configs"
       THEN SingleModifyAllConfigs(st, command, keys, fails)
  ELSE IF command.action = "query_consumer_groups" THEN SingleQueryConsumerGroups(st, fails)
  ELSE IF command.action = "query_topics" THEN SingleQueryTopics(st, command, fails)
  ELSE SingleDefault(st, command)

\* ------------------------------------------------ the responses explored
Obj(body) == <<LB, body, RB>>
ObjCfg(body, kv) == <<LB, body, LB, Cfg(kv), RB, RB>>
ObjFlt(body, kv) == <<LB, body, LB, Flt(kv), RB, RB>>

Chunks ==
  {Obj(Body("modify_partitions", "", "a", n)) : n \in 0..MaxPartitions}
  \cup
  { ObjCfg(Body("create_topic", "b", "", 2), [k1 |-> "v"]),
    Obj(Body("create_topic", "a", "", 0)),
    Obj(Body("create_topic", "", "", 1)),
    ObjCfg(Body("modify_config", "", "a", 0), [k1 |-> "v", k2 |-> "#num"]),
    ObjCfg(Body("modify_config", "", "b", 0), [k2 |-> "v"]),
    Obj(Body("modify_all_partitions", "", "", 2)),
    ObjCfg(Body("modify_all_configs", "", "", 0), [k2 |-> "w"]),
    Obj(Body("query_topics", "", "", 0)),
    ObjFlt(Body("query_topics", "", "", 0), [compression |-> "none"]),
    Obj(Body("query_consumer_groups", "", "", 0)),
    Obj(Body("delete_topic", "a", "a", 0)),
    Obj(Body("#nonstring", "", "a", 1)),
    Obj(Body("#missing", "", "a", 1)),
    <<LB, RB>>,
    <<LB, TXT, RB>>,
    <<LB>>,
    <<TXT>>,
    <<FENCE>> }

RECURSIVE Texts(_)
Texts(n) ==
  IF n = 0 THEN {<<>>}
  ELSE LET shorter == Texts(n - 1)
       IN shorter \cup {c \o t : c \in Chunks, t \in shorter}

\* ---------------------------------------------------------------- actions
\* Update, case AIResponseMsg with the completion text: parseAndExecuteCommand
ReceiveResponse(text) ==
  /\ aiPc = "idle"
  /\ response' = text
  /\ commands' = ExtractCommands(StripFences(text))
  /\ stepIdx' = 1
  /\ responses' = <<>>
  /\ IF Len(commands') = 0 THEN aiPc' = "shown" /\ aiResult' = "nocmd"
     ELSE IF Len(commands') > 1 THEN aiPc' = "batch" /\ aiResult' = aiResult
     ELSE aiPc' = "single" /\ aiResult' = aiResult
  /\ UNCHANGED <<topics, topicCfg, calls>>

\* one iteration of the loop of executeMultipleCommands
BatchStep ==
  /\ aiPc = "batch"
  /\ stepIdx <= Len(commands)
  /\ LET command == BatchPick(commands, stepIdx) IN
     \E keys \in ConfigOrders(command), fails \in SUBSET FailTargets(command) :
       LET r == BatchDispatch(Cluster(topics, topicCfg, calls), command, stepIdx, keys, fails)
       IN /\ topics' = r.st.topics
          /\ topicCfg' = r.st.cfg
          /\ calls' = r.st.calls
          /\ responses' = BatchAppend(responses, stepIdx, r.result)
          /\ stepIdx' = BatchAdvance(stepIdx, r.result)
  /\ UNCHANGED <<aiPc, aiResult, response, commands>>

\* the loop is over: the lines are joined into one AIResponseMsg
BatchFinish ==
  /\ aiPc = "batch"
  /\ stepIdx > Len(commands)
  /\ aiPc' = "shown"
  /\ aiResult' = IF responses = <<>> THEN "noactions" ELSE "batch"
  /\ UNCHANGED <<topics, topicCfg, calls, response, commands, stepIdx, responses>>

\* the command function returned for a single command runs
SingleExec ==
  /\ aiPc = "single"
  /\ LET command == commands[1] IN
     \E keys \in ConfigOrders(command), fails \in SUBSET FailTargets(command) :
       LET r == SingleDispatch(Cluster(topics, topicCfg, calls), command, keys, fails)
       IN /\ topics' = r.st.topics
          /\ topicCfg' = r.st.cfg
          /\ calls' = r.st.calls
          /\ aiResult' = r.result
  /\ aiPc' = "shown"
  /\ UNCHANGED <<response, commands, stepIdx, responses>>

AiInit ==
  /\ topics = [n \in TopicNames |-> IF n = "a" THEN 1 ELSE 0]
  /\ topicCfg = [n \in TopicNames |-> [k \in ConfigKeys |-> ""]]
  /\ calls = <<>>
  /\ aiPc = "idle"
  /\ aiResult = "none"
  /\ response = <<>>
  /\ commands = <<>>
  /\ stepIdx = 1
  /\ responses = <<>>

\* the assistant opened on a cluster with any of the topics, of any size
AiInitAny ==
  /\ topics \in [TopicNames -> 0..MaxPartitions]
  /\ topicCfg = [n \in TopicNames |-> [k \in ConfigKeys |-> ""]]
  /\ calls = <<>>
  /\ aiPc = "idle"
  /\ aiResult = "none"
  /\ response = <<>>
  /\ commands = <<>>
  /\ stepIdx = 1
  /\ responses = <<>>

\* ------------------------------------------- the topic-deletion dialog
MaxInput == 2           \* characters typed into the confirmation field
MaxDeletes == 2         \* delete commands issued by the dialog
MaxPending == 1         \* return-to-list messages not yet delivered

VARIABLES
  mode,            \* Model.mode: "list" | "delete"
  topicToDelete,   \* DeleteTopicModel.topicToDelete
  confirmInput,    \* the characters of confirmInput.Value()
  focusedButton,   \* 0: input field, 1: yes button, 2: no button
  dlgErr,          \* DeleteTopicModel.err != nil
  dlgKey,          \* the last tea.KeyMsg the dialog handled: "enter", "esc", "other"
  dlgCmds,         \* deleteTopic commands returned and not yet run
  dlgMsgs          \* messages on their way to Update

dlgVars == <<mode, topicToDelete, confirmInput, focusedButton, dlgErr, dlgKey,
             dlgCmds, dlgMsgs>>

InputChars == {"a", "A"}

\* a topic name as the characters a user types
Chars(name) == IF name = "" THEN <<>> ELSE <<name>>

Lower(c) == IF c = "A" THEN "a" ELSE c

InputMatchesFold(input, name) ==
  [j \in 1..Len(input) |-> Lower(input[j])] = Chars(name)

\* m.confirmInput.Value() == m.topicToDelete
InputMatches(input, name) == input = Chars(name)

RemoveAt(s, j) == SubSeq(s, 1, j - 1) \o SubSeq(s, j + 1, Len(s))

\* Model.Update, case "D": NewDeleteTopicModel for the topic selected in the
\* topics table
OpenDeleteDialog(name) ==
  /\ mode = "list"
  /\ topics[name] > 0
  /\ mode' = "delete"
  /\ topicToDelete' = name
  /\ confirmInput' = <<>>
  /\ focusedButton' = 0
  /\ dlgErr' = FALSE
  /\ UNCHANGED <<dlgKey, dlgCmds, dlgMsgs, topics, topicCfg, calls>>

\* case "esc": return m, ReturnToListView
DlgEsc ==
  /\ mode = "delete"
  /\ Len(dlgMsgs) < MaxPending
  /\ dlgKey' = "esc"
  /\ dlgMsgs' = Append(dlgMsgs, "switch")
  /\ UNCHANGED <<mode, topicToDelete, confirmInput, focusedButton, dlgErr, dlgCmds,
                 topics, topicCfg, calls>>

\* case "tab", "shift+tab"
DlgTab(key) ==
  /\ mode = "delete"
  /\ dlgKey' = "other"
  /\ focusedButton' = IF key = "tab"
                      THEN (IF focusedButton + 1 > 2 THEN 0 ELSE focusedButton + 1)
                      ELSE (IF focusedButton - 1 < 0 THEN 2 ELSE focusedButton - 1)
  /\ UNCHANGED <<mode, topicToDelete, confirmInput, dlgErr, dlgCmds, dlgMsgs,
                 topics, topicCfg, calls>>

\* case "enter"
DlgEnter ==
  /\ mode = "delete"
  /\ dlgKey' = "enter"
  /\ IF focusedButton = 0 THEN
       /\ focusedButton' = 1
       /\ UNCHANGED <<dlgErr, dlgCmds, dlgMsgs>>
     ELSE IF focusedButton = 1 THEN
       IF InputMatches(confirmInput, topicToDelete) THEN
         /\ Len(dlgCmds) + Len(calls) < MaxDeletes
         /\ dlgCmds' = Append(dlgCmds, topicToDelete)
         /\ UNCHANGED <<focusedButton, dlgErr, dlgMsgs>>
       ELSE
         /\ dlgErr' = TRUE
         /\ UNCHANGED <<focusedButton, dlgCmds, dlgMsgs>>
     ELSE
       /\ Len(dlgMsgs) < MaxPending
       /\ dlgMsgs' = Append(dlgMsgs, "switch")
       /\ UNCHANGED <<focusedButton, dlgErr, dlgCmds>>
  /\ UNCHANGED <<mode, topicToDelete, confirmInput, topics, topicCfg, calls>>

\* default: the text input takes the key while it has the focus;
\* edit is a typed character or "backspace"
DlgType(edit) ==
  /\ mode = "delete"
  /\ dlgKey' = "other"
  /\ IF focusedButton = 0 THEN
       /\ confirmInput' = IF edit = "backspace"
                          THEN SubSeq(confirmInput, 1, Len(confirmInput) - 1)
                          ELSE IF Len(confirmInput) < MaxInput
                          THEN Append(confirmInput, edit) ELSE confirmInput
       /\ dlgErr' = IF dlgErr /\ confirmInput' # <<>> THEN FALSE ELSE dlgErr
     ELSE UNCHANGED <<confirmInput, dlgErr>>
  /\ UNCHANGED <<mode, topicToDelete, focusedButton, dlgCmds, dlgMsgs,
                 topics, topicCfg, calls>>

\* the command made by deleteTopic runs: client.DeleteTopic(topicName)
RunDeleteTopic ==
  \E j \in 1..Len(dlgCmds), fail \in BOOLEAN :
    LET r == DeleteTopic(Cluster(topics, topicCfg, calls), dlgCmds[j], fail, 0)
    IN /\ topics' = r.st.topics
       /\ topicCfg' = r.st.cfg
       /\ calls' = r.st.calls
       /\ dlgCmds' = RemoveAt(dlgCmds, j)
       /\ dlgMsgs' = Append(dlgMsgs, IF r.err THEN "deleted_err" ELSE "deleted_ok")
       /\ UNCHANGED <<mode, topicToDelete, confirmInput, focusedButton, dlgErr, dlgKey>>

\* updateDeleteTopicView / DeleteTopicModel.Update on a message that is not
\* a key: SwitchToListViewMsg or topicDeletedMsg; outside the dialog the
\* message goes to another view
DlgDeliver ==
  \E j \in 1..Len(dlgMsgs) :
    /\ dlgMsgs' = IF mode = "delete" /\ dlgMsgs[j] = "deleted_ok"
                  THEN Append(RemoveAt(dlgMsgs, j), "switch")
                  ELSE RemoveAt(dlgMsgs, j)
    /\ mode' = IF dlgMsgs[j] = "switch" THEN "list" ELSE mode
    /\ dlgErr' = IF mode = "delete" /\ dlgMsgs[j] = "deleted_err" THEN TRUE ELSE dlgErr
    /\ UNCHANGED <<topicToDelete, confirmInput, focusedButton, dlgKey, dlgCmds,
                   topics, topicCfg, calls>>

DlgInit ==
  /\ mode = "list"
  /\ topicToDelete = ""
  /\ confirmInput = <<>>
  /\ focusedButton = 0
  /\ dlgErr = FALSE
  /\ dlgKey = "none"
  /\ dlgCmds = <<>>
  /\ dlgMsgs = <<>>

DlgNext ==
  \/ \E name \in TopicNames : OpenDeleteDialog(name)
  \/ DlgEsc
  \/ \E key \in {"tab", "shift+tab"} : DlgTab(key)
  \/ DlgEnter
  \/ \E edit \in InputChars \cup {"backspace"} : DlgType(edit)
  \/ RunDeleteTopic
  \/ DlgDeliver

\* ------------------------------------------------- Client.ConsumeMessages
MaxParts == 2           \* partitions of the consumed topic
MaxMsgs == 2            \* messages the partition streams deliver
MaxFairMsgs == 1        \* the same, in the runs that check termination
ChanCap == 1            \* buffer of the output channel

VARIABLES
  cPc,          \* the caller's goroutine: "init" | "open" | "unwind" | "wait"
                \*   | "cleanup" | "retNil" | "retErr"
  nParts,       \* len(partitions)
  opened,       \* len(partitionConsumers)
  closeIdx,     \* partition consumers a closing loop has closed so far
  ctxDone,      \* ctx.Done() is closed
  cursor,       \* partition -> "none" | "open" | "closed"
  closes,       \* partition -> Close calls on its partition consumer
  task,         \* partition -> "none" | "select" | "sendMsg" | "sendErr" | "done"
  recvd,        \* partition -> messages its task has received from the stream
  messageChan,  \* the contents of the output channel
  delivered,    \* some item has been put on the output channel by this call
  lastPut,      \* partition -> offset of the last message its task put on the
                \*   output channel, 0 before the first
  lateSends     \* partition -> items its task put after ctx was cancelled,
                \*   counted up to 2

consVars == <<cPc, nParts, opened, closeIdx, ctxDone, cursor, closes, task, recvd,
              messageChan, delivered, lastPut, lateSends>>

Partitions == 0..(MaxParts - 1)

\* the messages received from the streams so far
RECURSIVE Received(_)
Received(p) == IF p < 0 THEN 0 ELSE recvd[p] + Received(p - 1)

MessageOfStale(p, offset) == [kind |-> "msg", partition |-> p, offset |-> 1]

\* the Message built from a sarama.ConsumerMessage
MessageOf(p, offset) == [kind |-> "msg", partition |-> p, offset |-> offset]

\* Message{Topic: topic, Value: "Error: ..."}: partition and offset are zero
ErrorSentinel == [kind |-> "err", partition |-> 0, offset |-> 0]

CloseLoopDoneEarly(idx, n) == idx >= n - 1

\* for _, pc := range partitionConsumers: the loop is over after the last one
CloseLoopDone(idx, n) == idx >= n

\* sarama.NewConsumer and consumer.Partitions(topic): either fails, or the
\* topic has n partitions
ConsumeStart(ok, n) ==
  /\ cPc = "init"
  /\ IF ok THEN /\ nParts' = n
                /\ cPc' = IF n = 0 THEN "wait" ELSE "open"
     ELSE /\ cPc' = "retErr"
          /\ UNCHANGED nParts
  /\ UNCHANGED <<opened, closeIdx, ctxDone, cursor, closes, task, recvd, messageChan,
                 delivered, lastPut, lateSends>>

\* consumer.ConsumePartition succeeds: the consumer is recorded and its
\* goroutine is started
OpenPartition ==
  /\ cPc = "open"
  /\ opened < nParts
  /\ cursor' = [cursor EXCEPT ![opened] = "open"]
  /\ task' = [task EXCEPT ![opened] = "select"]
  /\ opened' = opened + 1
  /\ cPc' = IF opened + 1 = nParts THEN "wait" ELSE "open"
  /\ UNCHANGED <<nParts, closeIdx, ctxDone, closes, recvd, messageChan, delivered, lastPut,
                 lateSends>>

\* consumer.ConsumePartition fails: close what was opened, return the error
OpenPartitionFails ==
  /\ cPc = "open"
  /\ opened < nParts
  /\ cPc' = "unwind"
  /\ closeIdx' = 0
  /\ UNCHANGED <<nParts, opened, ctxDone, cursor, closes, task, recvd, messageChan,
                 delivered, lastPut, lateSends>>

\* <-ctx.Done() in the caller's goroutine
ConsumeWake ==
  /\ cPc = "wait"
  /\ ctxDone
  /\ cPc' = "cleanup"
  /\ closeIdx' = 0
  /\ UNCHANGED <<nParts, opened, ctxDone, cursor, closes, task, recvd, messageChan,
                 delivered, lastPut, lateSends>>

\* pc.Close() on the next partition consumer, in either closing loop: the
\* stream stops, its errors are drained and both its channels are closed
ClosePartition ==
  /\ cPc \in {"unwind", "cleanup"}
  /\ ~CloseLoopDone(closeIdx, opened)
  /\ cursor' = [cursor EXCEPT ![closeIdx] = "closed"]
  /\ closes' = [closes EXCEPT ![closeIdx] = @ + 1]
  /\ closeIdx' = closeIdx + 1
  /\ UNCHANGED <<cPc, nParts, opened, ctxDone, task, recvd, messageChan, delivered, lastPut,
                 lateSends>>

\* consumer.Close() and the return that follows a closing loop
ConsumeReturn ==
  /\ cPc \in {"unwind", "cleanup"}
  /\ CloseLoopDone(closeIdx, opened)
  /\ cPc' = IF cPc = "unwind" THEN "retErr" ELSE "retNil"
  /\ UNCHANGED <<nParts, opened, closeIdx, ctxDone, cursor, closes, task, recvd,
                 messageChan, delivered, lastPut, lateSends>>

\* the caller of ConsumeMessages cancels the context
Cancel ==
  /\ cPc # "init"
  /\ ~ctxDone
  /\ ctxDone' = TRUE
  /\ UNCHANGED <<cPc, nParts, opened, closeIdx, cursor, closes, task, recvd,
                 messageChan, delivered, lastPut, lateSends>>

\* A task in "select", "sendMsg" or "sendErr" has yet to evaluate that select
\* statement; a select with several ready cases takes any of them.

\* case <-ctx.Done(): return, in the outer or in an inner select
TaskCancelled(p) ==
  /\ task[p] \in {"select", "sendMsg", "sendErr"}
  /\ ctxDone
  /\ task' = [task EXCEPT ![p] = "done"]
  /\ UNCHANGED <<cPc, nParts, opened, closeIdx, ctxDone, cursor, closes, recvd,
                 messageChan, delivered, lastPut, lateSends>>

\* case msg, ok := <-pc.Messages() with the next message of the stream; a
\* closed stream still hands out the messages it had buffered
TaskReceive(p, limit) ==
  /\ task[p] = "select"
  /\ Received(MaxParts - 1) < limit
  /\ recvd' = [recvd EXCEPT ![p] = @ + 1]
  /\ task' = [task EXCEPT ![p] = "sendMsg"]
  /\ UNCHANGED <<cPc, nParts, opened, closeIdx, ctxDone, cursor, closes, messageChan,
                 delivered, lastPut, lateSends>>

\* case msg, ok := <-pc.Messages() on the closed, emptied channel: return
TaskStreamClosed(p) ==
  /\ task[p] = "select"
  /\ cursor[p] = "closed"
  /\ task' = [task EXCEPT ![p] = "done"]
  /\ UNCHANGED <<cPc, nParts, opened, closeIdx, ctxDone, cursor, closes, recvd,
                 messageChan, delivered, lastPut, lateSends>>

\* case err := <-pc.Errors() with an error of the open stream
TaskReceiveError(p) ==
  /\ task[p] = "select"
  /\ cursor[p] = "open"
  /\ task' = [task EXCEPT ![p] = "sendErr"]
  /\ UNCHANGED <<cPc, nParts, opened, closeIdx, ctxDone, cursor, closes, recvd,
                 messageChan, delivered, lastPut, lateSends>>

AfterSendStopsOnError(kind) == IF kind = "sendErr" THEN "done" ELSE "select"

\* after the inner select the for loop goes round again, whatever was sent
AfterSend(kind) == "select"

\* case messageChan <- message, of the message or of the error sentinel
TaskSend(p) ==
  /\ task[p] \in {"sendMsg", "sendErr"}
  /\ Len(messageChan) < ChanCap
  /\ LET message == IF task[p] = "sendMsg" THEN MessageOf(p, recvd[p]) ELSE ErrorSentinel
     IN /\ messageChan' = Append(messageChan, message)
        /\ lastPut' = IF message.kind = "msg"
                      THEN [lastPut EXCEPT ![p] = message.offset] ELSE lastPut
  /\ delivered' = TRUE
  /\ lateSends' = [lateSends EXCEPT ![p] = IF ctxDone /\ @ < 2 THEN @ + 1 ELSE @]
  /\ task' = [task EXCEPT ![p] = AfterSend(task[p])]
  /\ UNCHANGED <<cPc, nParts, opened, closeIdx, ctxDone, cursor, closes, recvd>>

\* waitForMessage: the view takes the next item off the channel
ViewReceive ==
  /\ messageChan # <<>>
  /\ messageChan' = Tail(messageChan)
  /\ UNCHANGED <<cPc, nParts, opened, closeIdx, ctxDone, cursor, closes, task, recvd,
                 delivered, lastPut, lateSends>>

ConsInit ==
  /\ cPc = "init"
  /\ nParts = 0
  /\ opened = 0
  /\ closeIdx = 0
  /\ ctxDone = FALSE
  /\ cursor = [p \in Partitions |-> "none"]
  /\ closes = [p \in Partitions |-> 0]
  /\ task = [p \in Partitions |-> "none"]
  /\ recvd = [p \in Partitions |-> 0]
  /\ messageChan = <<>>
  /\ delivered = FALSE
  /\ lastPut = [p \in Partitions |-> 0]
  /\ lateSends = [p \in Partitions |-> 0]

\* the steps of the caller's goroutine
ConsumeMain ==
  \/ \E ok \in BOOLEAN, n \in 0..MaxParts : ConsumeStart(ok, n)
  \/ OpenPartition
  \/ OpenPartitionFails
  \/ ConsumeWake
  \/ ClosePartition
  \/ ConsumeReturn

\* the steps of the goroutine of partition p, whose streams deliver up to
\* limit messages
ConsumeTask(p, limit) ==
  \/ TaskCancelled(p)
  \/ TaskReceive(p, limit)
  \/ TaskStreamClosed(p)
  \/ TaskReceiveError(p)
  \/ TaskSend(p)

ConsNext(limit) ==
  \/ ConsumeMain
  \/ \E p \in Partitions : ConsumeTask(p, limit)
  \/ Cancel
  \/ ViewReceive

\* --------------------------------------- the result of an execution
\* The command function returns its result as an AIResponseMsg, which Update
\* handles like the message that carried the completion.
VARIABLES
  source          \* where the text in response came from: "model" | "result"

fbVars == <<source>>

\* a topic name whose characters spell a JSON object with an action
Embedded == "{create_topic b}"

\* the tokens of a name inside a result text
Spelled(name) ==
  IF name = Embedded THEN Obj(Body("create_topic", "b", "", 1)) ELSE <<TXT>>

Target(command) ==
  IF command.action = "create_topic" THEN command.name ELSE command.topic

\* a result line: the format string with the name of the topic in it
Line(command) == <<TXT>> \o Spelled(Target(command)) \o <<TXT>>

\* strings.Join(responses, "\n")
RECURSIVE JoinLines(_, _)
JoinLines(cmds, resps) ==
  IF resps = <<>> THEN <<>>
  ELSE Line(cmds[Head(resps).step]) \o JoinLines(cmds, Tail(resps))

\* the response field of the AIResponseMsg of the execution
ResultText ==
  IF aiResult = "batch" THEN JoinLines(commands, responses)
  ELSE IF aiResult = "noactions" THEN <<TXT>>
  ELSE Line(commands[1])

\* its err field: the single-command functions return the error with the
\* failure text, the batch never does
ResultErr == aiResult = "fail"

\* Update, case AIResponseMsg with the result of the execution
ReceiveResult ==
  /\ aiPc = "shown"
  /\ aiResult \notin {"nocmd", "none"}
  /\ source' = "result"
  /\ IF ResultErr
     THEN /\ aiPc' = "done"
          /\ UNCHANGED <<aiResult, response, commands, stepIdx, responses>>
     ELSE /\ response' = ResultText
          /\ commands' = ExtractCommands(StripFences(ResultText))
          /\ stepIdx' = 1
          /\ responses' = <<>>
          /\ aiResult' = aiResult
          /\ aiPc' = IF Len(commands') = 0 THEN "done"
                     ELSE IF Len(commands') > 1 THEN "batch" ELSE "single"
  /\ UNCHANGED <<topics, topicCfg, calls>>

\* the responses with a name that spells an action object
EmbeddedTexts ==
  LET e == Obj(Body("modify_partitions", "", Embedded, 2))
  IN  {e} \cup {e \o c : c \in Chunks} \cup {c \o e : c \in Chunks}

FbInit == source = "model"

\* ------------------------------------------------- the consumer view
\* ConsumerModel on the other side of messageChan. The consume call is seen
\* from outside here: it fails to start or it streams, and while it streams
\* messages appear on the channel.
VARIABLES
  consumerMode,   \* ConsumerModel.mode: "offset" | "normal" | "search" | "left"
  consuming,      \* ConsumerModel.consuming
  messages,       \* ConsumerModel.messages
  totalBytes,     \* ConsumerModel.totalBytes
  consumerErr,    \* ConsumerModel.err != nil
  waiter,         \* the waitForMessage command: "none" | "armed" | "msg"
  received,       \* the message the command returned, on its way to Update
  reportPc        \* the goroutine of consumeMessages: "none" | "calling"
                  \*   | "failed" | "sent" | "silent"

viewVars == <<consumerMode, consuming, messages, totalBytes, consumerErr, waiter,
              received, reportPc>>

VARIABLES
  searchTerm,       \* ConsumerModel.searchTerm
  searchResults,    \* ConsumerModel.searchResults: indices into messages, from 0
  filteredIndices,  \* ConsumerModel.filteredIndices
  currentMatch,     \* ConsumerModel.currentMatch
  showFiltered,     \* ConsumerModel.showFiltered
  tableRows         \* the indices of the messages in the rows of the table

searchVars == <<searchTerm, searchResults, filteredIndices, currentMatch, showFiltered,
                tableRows>>

MaxViewMsgs == 3        \* messages the consume call puts on the channel

\* the search terms typed: none, the name of the topic, a word of the error text
Terms == {"", "topic", "error"}

\* messageMatches: the term occurs in the key, the value or the topic
Matches(message, term) ==
  \/ term = "topic" /\ message.kind # "empty"
  \/ term = "error" /\ message.kind = "err"

\* len(msg.message.Key) + len(msg.message.Value); the n-th payload is n bytes long
Bytes(message) ==
  IF message.kind = "msg" THEN message.offset
  ELSE IF message.kind = "err" THEN 1 ELSE 0

\* the indices from 0 of the messages of msgs that match term
RECURSIVE MatchingIndices(_, _)
MatchingIndices(msgs, term) ==
  IF msgs = <<>> THEN <<>>
  ELSE LET before == MatchingIndices(SubSeq(msgs, 1, Len(msgs) - 1), term)
       IN IF Matches(msgs[Len(msgs)], term) THEN Append(before, Len(msgs) - 1) ELSE before

\* updateTable: the filtered indices when the filter is on and there are
\* any, otherwise every message; an index past the end is skipped
TableOf(msgs, filtered, show) ==
  IF show /\ filtered # <<>>
  THEN SelectSeq(filtered, LAMBDA idx : idx < Len(msgs))
  ELSE [i \in 1..Len(msgs) |-> i - 1]

\* what the view spec shares with the consume call
linkVars == <<ctxDone, messageChan, recvd>>

\* kafka.Message{}: the Topic is empty
EmptyMessage == [kind |-> "empty", partition |-> 0, offset |-> 0]

\* msg.message.Topic != ""
HasTopic(message) == message.kind # "empty"

\* Enter in the offset dialog: a specific offset that does not parse sets the
\* error and stays; otherwise consumption and the first wait are started
OffsetEnter(valid) ==
  /\ consumerMode = "offset"
  /\ IF valid
     THEN /\ consumerMode' = "normal"
          /\ consuming' = TRUE
          /\ reportPc' = "calling"
          /\ waiter' = "armed"
          /\ UNCHANGED consumerErr
     ELSE /\ consumerErr' = TRUE
          /\ UNCHANGED <<consumerMode, consuming, reportPc, waiter>>
  /\ UNCHANGED <<messages, totalBytes, received, linkVars>>
  /\ UNCHANGED searchVars

\* Esc in the offset dialog: m.cancel() and back to the list
OffsetEsc ==
  /\ consumerMode = "offset"
  /\ ctxDone' = TRUE
  /\ consumerMode' = "left"
  /\ UNCHANGED <<consuming, messages, totalBytes, consumerErr, waiter, received, reportPc,
                 messageChan, recvd>>
  /\ UNCHANGED searchVars

\* client.ConsumeMessagesWithOffset returns an error
CallFails ==
  /\ reportPc = "calling"
  /\ reportPc' = "failed"
  /\ UNCHANGED <<consumerMode, consuming, messages, totalBytes, consumerErr, waiter,
                 received, linkVars>>
  /\ UNCHANGED searchVars

\* if err != nil && ctx.Err() == nil { messageChan <- kafka.Message{} }
ReportFailure ==
  /\ reportPc = "failed"
  /\ IF ctxDone
     THEN reportPc' = "silent" /\ UNCHANGED messageChan
     ELSE /\ Len(messageChan) < ChanCap
          /\ messageChan' = Append(messageChan, EmptyMessage)
          /\ reportPc' = "sent"
  /\ UNCHANGED <<consumerMode, consuming, messages, totalBytes, consumerErr, waiter,
                 received, ctxDone, recvd>>
  /\ UNCHANGED searchVars

\* the running consume call puts a message or an error sentinel on the channel
StreamPuts(message) ==
  /\ reportPc = "calling"
  /\ Len(messageChan) < ChanCap
  /\ recvd[0] < MaxViewMsgs
  /\ recvd' = [recvd EXCEPT ![0] = @ + 1]
  /\ messageChan' = Append(messageChan, message)
  /\ UNCHANGED <<viewVars, searchVars, ctxDone>>

\* waitForMessage: msg := <-messageChan
WaiterTakes ==
  /\ waiter = "armed"
  /\ messageChan # <<>>
  /\ received' = Head(messageChan)
  /\ messageChan' = Tail(messageChan)
  /\ waiter' = "msg"
  /\ UNCHANGED <<consumerMode, consuming, messages, totalBytes, consumerErr, reportPc,
                 ctxDone, recvd>>
  /\ UNCHANGED searchVars

RearmIfConsuming(isConsuming) == IF isConsuming THEN "armed" ELSE "none"

\* cmds = append(cmds, waitForMessage(m.messageChan)), paused or not
Rearm(isConsuming) == "armed"

\* Update with the messageReceivedMsg. In normal mode the message is stored
\* when it has a topic and the view is consuming: it is counted, becomes a
\* search result when it matches the term, and the table is rebuilt; then
\* the wait is started again. In search mode the message goes to the search
\* input and no wait is started; a view that was left gets no message.
UpdateMessage ==
  /\ waiter = "msg"
  /\ IF consumerMode = "normal"
     THEN /\ IF HasTopic(received) /\ consuming
             THEN /\ messages' = Append(messages, received)
                  /\ totalBytes' = totalBytes + Bytes(received)
                  /\ searchResults' =
                       IF searchTerm # "" /\ Matches(received, searchTerm)
                       THEN Append(searchResults, Len(messages))
                       ELSE searchResults
                  /\ tableRows' = TableOf(messages', filteredIndices, showFiltered)
             ELSE UNCHANGED <<messages, totalBytes, searchResults, tableRows>>
          /\ waiter' = Rearm(consuming)
     ELSE /\ waiter' = "none"
          /\ UNCHANGED <<messages, totalBytes, searchResults, tableRows>>
  /\ UNCHANGED <<consumerMode, consuming, consumerErr, received, reportPc, linkVars,
                 searchTerm, filteredIndices, currentMatch, showFiltered>>

BytesAfterClearKept(total) == total

\* m.totalBytes = 0
BytesAfterClear(total) == 0

\* the keys of the normal mode: p pauses or resumes, c clears, / searches,
\* n and N step through the search results, f switches the filter, q and
\* esc cancel and leave
NormalKey(key) ==
  /\ consumerMode = "normal"
  /\ IF key = "p" THEN
       /\ consuming' = ~consuming
       /\ UNCHANGED <<consumerMode, messages, totalBytes, ctxDone, searchVars>>
     ELSE IF key = "c" THEN
       /\ messages' = <<>>
       /\ totalBytes' = BytesAfterClear(totalBytes)
       /\ searchResults' = <<>>
       /\ filteredIndices' = <<>>
       /\ tableRows' = TableOf(<<>>, <<>>, showFiltered)
       /\ UNCHANGED <<consumerMode, consuming, ctxDone, searchTerm, currentMatch,
                      showFiltered>>
     ELSE IF key = "/" THEN
       /\ consumerMode' = "search"
       /\ UNCHANGED <<consuming, messages, totalBytes, ctxDone, searchVars>>
     ELSE IF key = "n" THEN
       /\ currentMatch' = IF searchResults # <<>>
                          THEN (currentMatch + 1) % Len(searchResults)
                          ELSE currentMatch
       /\ UNCHANGED <<consumerMode, consuming, messages, totalBytes, ctxDone, searchTerm,
                      searchResults, filteredIndices, showFiltered, tableRows>>
     ELSE IF key = "N" THEN
       /\ currentMatch' = IF searchResults # <<>>
                          THEN (currentMatch - 1 + Len(searchResults)) % Len(searchResults)
                          ELSE currentMatch
       /\ UNCHANGED <<consumerMode, consuming, messages, totalBytes, ctxDone, searchTerm,
                      searchResults, filteredIndices, showFiltered, tableRows>>
     ELSE IF key = "f" THEN
       /\ showFiltered' = IF searchResults # <<>> THEN ~showFiltered ELSE showFiltered
       /\ tableRows' = IF searchResults # <<>>
                       THEN TableOf(messages, filteredIndices, showFiltered')
                       ELSE tableRows
       /\ UNCHANGED <<consumerMode, consuming, messages, totalBytes, ctxDone, searchTerm,
                      searchResults, filteredIndices, currentMatch>>
     ELSE /\ ctxDone' = TRUE
          /\ consuming' = FALSE
          /\ consumerMode' = "left"
          /\ UNCHANGED <<messages, totalBytes, searchVars>>
  /\ UNCHANGED <<consumerErr, waiter, received, reportPc, messageChan, recvd>>

\* esc in search mode: the filter is switched off and the table rebuilt
SearchEsc ==
  /\ consumerMode = "search"
  /\ consumerMode' = "normal"
  /\ showFiltered' = FALSE
  /\ tableRows' = TableOf(messages, filteredIndices, FALSE)
  /\ UNCHANGED <<consuming, messages, totalBytes, consumerErr, waiter, received, reportPc,
                 linkVars, searchTerm, searchResults, filteredIndices, currentMatch>>

\* enter in search mode: performSearch with the term typed; the current
\* match goes to the first result when there is one
SearchEnter(term) ==
  /\ consumerMode = "search"
  /\ consumerMode' = "normal"
  /\ searchTerm' = term
  /\ searchResults' = MatchingIndices(messages, term)
  /\ filteredIndices' = MatchingIndices(messages, term)
  /\ currentMatch' = IF searchResults' # <<>> THEN 0 ELSE currentMatch
  /\ UNCHANGED <<consuming, messages, totalBytes, consumerErr, waiter, received, reportPc,
                 linkVars, showFiltered, tableRows>>

ViewInit ==
  /\ consumerMode = "offset"
  /\ consuming = FALSE
  /\ messages = <<>>
  /\ totalBytes = 0
  /\ consumerErr = FALSE
  /\ waiter = "none"
  /\ received = EmptyMessage
  /\ reportPc = "none"

SearchInit ==
  /\ searchTerm = ""
  /\ searchResults = <<>>
  /\ filteredIndices = <<>>
  /\ currentMatch = 0
  /\ showFiltered = FALSE
  /\ tableRows = <<>>

ViewNext ==
  \/ \E valid \in BOOLEAN : OffsetEnter(valid)
  \/ OffsetEsc
  \/ CallFails
  \/ ReportFailure
  \/ \E message \in {MessageOf(0, recvd[0] + 1), ErrorSentinel} : StreamPuts(message)
  \/ WaiterTakes
  \/ UpdateMessage
  \/ \E key \in {"p", "c", "/", "n", "N", "f", "q"} : NormalKey(key)
  \/ SearchEsc
  \/ \E term \in Terms : SearchEnter(term)

\* ---------------------------------------------- Client.calculateConsumerLag
MaxOffset == 2          \* committed offsets run from -1 to MaxOffset
MaxHwm == 2             \* high-water marks run from 0 to MaxHwm

VARIABLES
  lagPc,        \* "idle" before the lag of the group is computed, "done" after
  lagIn,        \* what the cluster answers to the queries of the computation
  lagResult     \* [ConsumerLag, err]: what GetConsumerGroups hands to its caller
                \*   for the group

lagVars == <<lagPc, lagIn, lagResult>>

\* the topic/partition pairs a group can have committed offsets on
LagPairs == {<<"a", 0>>, <<"a", 1>>, <<"b", 0>>}

\* offsets.Blocks[topic][partition]: no block, or a block with its offset
Blocks ==
  {[has |-> FALSE, offset |-> 0]} \cup {[has |-> TRUE, offset |-> o] : o \in -1..MaxOffset}

\* the cluster's view of a pair: the partition is not in the metadata, or
\* ConsumePartition fails on it, or it has a high-water mark
Metas ==
  {[found |-> FALSE, openFails |-> FALSE, hwm |-> 0],
   [found |-> TRUE, openFails |-> TRUE, hwm |-> 0]}
  \cup {[found |-> TRUE, openFails |-> FALSE, hwm |-> h] : h \in 0..MaxHwm}

\* fail: "offsets" when ListConsumerGroupOffsets fails, "consumer" when
\* sarama.NewConsumer fails; topicErr: the topics consumer.Partitions fails on
LagInputs ==
  [committed : [LagPairs -> Blocks], meta : [LagPairs -> Metas],
   topicErr : SUBSET {"b"}, fail : {"none", "offsets", "consumer"}]

NoLagInput ==
  [committed |-> [q \in LagPairs |-> [has |-> FALSE, offset |-> 0]],
   meta |-> [q \in LagPairs |-> [found |-> FALSE, openFails |-> FALSE, hwm |-> 0]],
   topicErr |-> {}, fail |-> "none"]

\* consumer.Partitions(topic)
TopicPartitions(in, topic) == {q[2] : q \in {r \in LagPairs : r[1] = topic /\ in.meta[r].found}}

PartitionFoundAlways(partitions, partitionID) == TRUE

\* for _, p := range partitions: if p == partitionID
PartitionFound(partitions, partitionID) == partitionID \in partitions

OffsetCommittedAlways(offset) == TRUE

\* block.Offset >= 0: the group has committed an offset on the partition
OffsetCommitted(offset) == offset >= 0

PartitionLagUnclamped(highWaterMark, offset) ==
  IF highWaterMark > 0 /\ OffsetCommitted(offset) THEN highWaterMark - offset ELSE 0

\* the lag of one partition: counted when it is positive
PartitionLag(highWaterMark, offset) ==
  IF highWaterMark > 0 /\ OffsetCommitted(offset)
  THEN (IF highWaterMark - offset > 0 THEN highWaterMark - offset ELSE 0)
  ELSE 0

OnOpenFailureAbort(rest) == 0

\* ConsumePartition failed: continue with the other partitions
OnOpenFailure(rest) == rest

\* the two loops over offsets.Blocks, one pair at a time; the order of a Go
\* map range is not fixed, and the sum does not depend on it
RECURSIVE SumLag(_, _)
SumLag(in, pairs) ==
  IF pairs = {} THEN 0
  ELSE LET q == CHOOSE r \in pairs : TRUE
           rest == SumLag(in, pairs \ {q})
       IN IF ~in.committed[q].has THEN rest
          ELSE IF q[1] \in in.topicErr THEN rest
          ELSE IF ~PartitionFound(TopicPartitions(in, q[1]), q[2]) THEN rest
          ELSE IF in.meta[q].openFails THEN OnOpenFailure(rest)
          ELSE PartitionLag(in.meta[q].hwm, in.committed[q].offset) + rest

\* calculateConsumerLag returns an int64 and no error
calculateConsumerLag(in) == IF in.fail # "none" THEN 0 ELSE SumLag(in, LagPairs)

\* GetConsumerGroups for one group: info.ConsumerLag is what
\* calculateConsumerLag returned, and the error returned is nil
GetConsumerGroups(in) ==
  /\ lagPc = "idle"
  /\ lagIn' = in
  /\ lagResult' = [ConsumerLag |-> calculateConsumerLag(in), err |-> FALSE]
  /\ lagPc' = "done"

LagInit ==
  /\ lagPc = "idle"
  /\ lagIn = NoLagInput
  /\ lagResult = [ConsumerLag |-> 0, err |-> FALSE]

LagNext == \E in \in LagInputs : GetConsumerGroups(in)

\* ------------------------------------------------ parseTimeToMilliseconds
\* The function is exercised by TestParseTimeToMilliseconds; its body is not
\* among the sources, so it is written here after the cases of that test. A
\* string is a sequence of symbols: a digit, the point, a space, or a word
\* (a maximal run of letters).
VARIABLES
  timeIn,         \* the argument of the last call
  timeOut,        \* its result
  timePc          \* "idle" | "once" | "twice"

timeVars == <<timeIn, timeOut, timePc>>

MaxStr == 4             \* strings of up to MaxStr symbols

Digits == <<"0", "1", "2", "3", "4", "5", "6", "7", "8", "9">>
InDigits == {"0", "1", "2"}
Words == {"h", "m", "ms", "d", "weeks", "x"}
Symbols == InDigits \cup {".", " "} \cup Words

Strings == UNION {[1..n -> Symbols] : n \in 0..MaxStr}

IsDigit(c) == \E d \in 1..10 : Digits[d] = c
DigitVal(c) == (CHOOSE d \in 1..10 : Digits[d] = c) - 1

\* strconv accepts the string as an integer
IsPlainInteger(s) == s # <<>> /\ \A i \in 1..Len(s) : IsDigit(s[i])

\* the first position from i on that holds no digit
RECURSIVE DigitsEnd(_, _)
DigitsEnd(s, i) ==
  IF i <= Len(s) /\ IsDigit(s[i]) THEN DigitsEnd(s, i + 1) ELSE i

\* the first position from i on that holds no space
RECURSIVE SpacesEnd(_, _)
SpacesEnd(s, i) ==
  IF i <= Len(s) /\ s[i] = " " THEN SpacesEnd(s, i + 1) ELSE i

\* the number written by the digits s[i..j-1]
RECURSIVE Value(_, _, _)
Value(s, i, j) ==
  IF j <= i THEN 0 ELSE 10 * Value(s, i, j - 1) + DigitVal(s[j - 1])

RECURSIVE Pow10(_)
Pow10(k) == IF k = 0 THEN 1 ELSE 10 * Pow10(k - 1)

\* a number at position i: digits, then optionally a point and digits, with
\* a digit on at least one side
ScanNumber(s, i) ==
  LET e1 == DigitsEnd(s, i)
      hasDot == e1 <= Len(s) /\ s[e1] = "."
      e2 == IF hasDot THEN DigitsEnd(s, e1 + 1) ELSE e1
  IN  [ok |-> e1 > i \/ (hasDot /\ e2 > e1 + 1),
       whole |-> Value(s, i, e1),
       frac |-> IF hasDot THEN Value(s, e1 + 1, e2) ELSE 0,
       places |-> IF hasDot THEN e2 - e1 - 1 ELSE 0,
       next |-> e2]

UnitSeconds(word) ==
  CASE word = "m" -> 60
    [] word = "h" -> 3600
    [] word = "d" -> 86400
    [] word = "weeks" -> 604800

\* an amount of time as whole seconds and the milliseconds beyond them
Amount(num, word) ==
  IF word = "ms"
  THEN [sec |-> num.whole \div 1000, ms |-> num.whole % 1000]
  ELSE LET t == UnitSeconds(word) * num.frac
           p == Pow10(num.places)
       IN  [sec |-> num.whole * UnitSeconds(word) + t \div p,
            ms |-> ((t % p) * 1000) \div p]

Plus(a, b) ==
  [sec |-> a.sec + b.sec + (a.ms + b.ms) \div 1000, ms |-> (a.ms + b.ms) % 1000]

NotATime == [ok |-> FALSE, amount |-> [sec |-> 0, ms |-> 0]]

\* "1d", "1.5d", "1 d", "2 weeks": one number, spaces if any, a day or week word
DayForm(s) ==
  LET num == ScanNumber(s, 1)
      w == SpacesEnd(s, num.next)
  IN  IF num.ok /\ w = Len(s) /\ s[w] \in {"d", "weeks"}
      THEN [ok |-> TRUE, amount |-> Amount(num, s[w])]
      ELSE NotATime

\* "1h", "1h30m", "500ms": numbers each followed at once by its unit
RECURSIVE DurationFrom(_, _, _)
DurationFrom(s, i, acc) ==
  LET num == ScanNumber(s, i)
  IN  IF num.ok /\ num.next <= Len(s) /\ s[num.next] \in {"h", "m", "ms"}
      THEN IF num.next = Len(s)
           THEN [ok |-> TRUE, amount |-> Plus(acc, Amount(num, s[num.next]))]
           ELSE DurationFrom(s, num.next + 1, Plus(acc, Amount(num, s[num.next])))
      ELSE NotATime

DurationForm(s) == DurationFrom(s, 1, [sec |-> 0, ms |-> 0])

RECURSIVE ToDecimal(_)
ToDecimal(n) ==
  IF n < 10 THEN <<Digits[n + 1]>> ELSE Append(ToDecimal(n \div 10), Digits[(n % 10) + 1])

\* the decimal string of a floating-point number of milliseconds
FormatFloat(a) ==
  IF a.sec = 0 THEN ToDecimal(a.ms) \o <<".", "0">>
  ELSE ToDecimal(a.sec) \o ToDecimal(1000 + a.ms)

\* the decimal string of the milliseconds
FormatMilliseconds(a) ==
  IF a.sec = 0 THEN ToDecimal(a.ms)
  ELSE ToDecimal(a.sec) \o Tail(ToDecimal(1000 + a.ms))

parseTimeToMilliseconds(s) ==
  IF IsPlainInteger(s) THEN s
  ELSE IF DayForm(s).ok THEN FormatMilliseconds(DayForm(s).amount)
  ELSE IF DurationForm(s).ok THEN FormatMilliseconds(DurationForm(s).amount)
  ELSE s

\* a call, and a call on the result of the call before
ParseTime ==
  /\ timePc \in {"idle", "once"}
  /\ timeIn' = IF timePc = "idle" THEN timeIn ELSE timeOut
  /\ timeOut' = parseTimeToMilliseconds(IF timePc = "idle" THEN timeIn ELSE timeOut)
  /\ timePc' = IF timePc = "idle" THEN "once" ELSE "twice"

TimeInit == timeIn = <<>> /\ timeOut = <<>> /\ timePc = "idle"

TimeInitAny == timeIn \in Strings /\ timeOut = <<>> /\ timePc = "idle"

\* ------------------------------ the extraction loop, one iteration a step
VARIABLES
  remaining,      \* parseAndExecuteCommand: the text not yet scanned
  scanned,        \* the commands appended so far
  scanPc          \* "loop" | "done"

scanVars == <<remaining, scanned, scanPc>>

RemainderWhole(text, end) == text

\* remaining = remaining[end+1:]
Remainder(text, end) == SubSeq(text, end + 1, Len(text))

\* one pass through the body of the for loop
ScanStep ==
  /\ scanPc = "loop"
  /\ LET start == IndexOpen(remaining, 1)
         end == IF start = 0 THEN 0 ELSE MatchEnd(remaining, start, 0)
     IN IF start = 0 \/ end = 0
        THEN scanPc' = "done" /\ UNCHANGED <<remaining, scanned>>
        ELSE LET d == Decode(SubSeq(remaining, start, end)) IN
             /\ scanned' = IF d.ok /\ d.cmd.action # "#missing"
                           THEN Append(scanned, d.cmd) ELSE scanned
             /\ remaining' = Remainder(remaining, end)
             /\ scanPc' = "loop"

ScanInit == remaining = <<>> /\ scanned = <<>> /\ scanPc = "done"

\* the loop is entered with the response, its fence markers removed
ScanInitAny ==
  /\ remaining \in {StripFences(text) : text \in Texts(MaxChunks)}
  /\ scanned = <<>>
  /\ scanPc = "loop"

\* ------------------------------------ Client.GetTopicDetails and its cache
\* Time is counted in half minutes.
VARIABLES
  clock,              \* time.Now()
  cachedTopics,       \* Client.topics
  topicsLastFetched,  \* Client.topicsLastFetched
  fetchedAt,          \* when ListTopics last answered a GetTopicDetails call
  queries,            \* admin.ListTopics calls made by GetTopicDetails
  detailCalls         \* GetTopicDetails calls made

cacheVars == <<clock, cachedTopics, topicsLastFetched, fetchedAt, queries, detailCalls>>

MaxClock == 5           \* the clock runs up to MaxClock half minutes after the start
MaxFetches == 4         \* GetTopicDetails calls explored

\* const topicCacheDuration = 1 * time.Minute
topicCacheDuration == 2

\* the zero time.Time, more than a minute before the program starts
ZeroTime == 0
StartTime == ZeroTime + topicCacheDuration + 1

\* the topics of the cluster, sorted by name
ClusterTopics == <<"a", "b">>

\* c.topicsLastFetched.Add(topicCacheDuration).After(time.Now()) && len(c.topics) > 0
CacheFresh == topicsLastFetched + topicCacheDuration > clock /\ Len(cachedTopics) > 0

\* GetTopicDetails: the cached list when it is fresh; otherwise the cluster
\* is asked, and its answer is stored in c.topics
GetTopicDetailsCall(fail) ==
  /\ detailCalls < MaxFetches
  /\ detailCalls' = detailCalls + 1
  /\ IF CacheFresh
     THEN UNCHANGED <<cachedTopics, queries, fetchedAt>>
     ELSE /\ queries' = queries + 1
          /\ IF fail THEN UNCHANGED <<cachedTopics, fetchedAt>>
             ELSE cachedTopics' = ClusterTopics /\ fetchedAt' = clock
  /\ UNCHANGED <<clock, topicsLastFetched>>

\* half a minute passes
Tick ==
  /\ clock < StartTime + MaxClock
  /\ clock' = clock + 1
  /\ UNCHANGED <<cachedTopics, topicsLastFetched, fetchedAt, queries, detailCalls>>

CacheInit ==
  /\ clock = StartTime
  /\ cachedTopics = <<>>
  /\ topicsLastFetched = ZeroTime
  /\ fetchedAt = ZeroTime
  /\ queries = 0
  /\ detailCalls = 0

CacheNext == Tick \/ \E fail \in BOOLEAN : GetTopicDetailsCall(fail)

\* ------------------------------------------------- the ACL delete dialog
\* DeleteACLModel. The confirm field of the form is bound to &m.confirm when
\* the form is built. The repository holds the model twice: with pointer
\* receivers, where the form writes the field Update reads, and with value
\* receivers, where the form writes the field of the model it was built in
\* and the copy Update works on keeps its own.
VARIABLES
  clusterAcls,    \* the ACLs of the cluster
  acl,            \* DeleteACLModel.acl
  aclBound,       \* the form writes the confirm field that Update reads
  aclView,        \* "dialog" | "list"
  formState,      \* huh form: "normal" | "completed"
  formChoice,     \* the choice shown by the confirm field of the form
  confirm,        \* DeleteACLModel.confirm as Update reads it
  deleting,       \* DeleteACLModel.deleting
  aclErr,         \* DeleteACLModel.err != nil
  aclCmd,         \* deleteACL: "none" | "queued" | "ok" | "err" (aclDeletedMsg)
  ticks,          \* spinner.TickMsg messages on their way
  deleteCalls     \* Client.DeleteACL calls made

aclVars == <<clusterAcls, acl, aclBound, aclView, formState, formChoice, confirm, deleting, aclErr, aclCmd,
             ticks, deleteCalls>>

MaxAclCalls == 2        \* DeleteACL calls explored
MaxTicks == 2           \* spinner ticks in flight at a time

Acls == {"r1", "r2"}

\* Client.DeleteACL: an error of the cluster, or no matching ACL
DeleteACL(acls, a, fail) ==
  LET err == fail \/ a \notin acls
  IN  [err |-> err, acls |-> IF err THEN acls ELSE acls \ {a}]

ConfirmedAlways(c) == TRUE

\* if m.confirm
Confirmed(c) == c

\* the end of Update: the form gets the message, and a completed form
\* either starts the deletion or returns to the list
FormUpdate(key) ==
  /\ formChoice' = IF formState = "normal" /\ key = "toggle" THEN ~formChoice
                   ELSE formChoice
  /\ formState' = IF key = "enter" THEN "completed" ELSE formState
  /\ confirm' = IF aclBound THEN formChoice' ELSE confirm
  /\ IF formState' = "completed"
     THEN IF Confirmed(confirm')
          THEN /\ deleting' = TRUE
               /\ aclCmd' = "queued"
               /\ ticks < MaxTicks
               /\ ticks' = ticks + 1
               /\ UNCHANGED aclView
          ELSE /\ aclView' = "list"
               /\ UNCHANGED <<deleting, aclCmd, ticks>>
     ELSE UNCHANGED <<aclView, deleting, aclCmd, ticks>>

\* Update with a key: esc leaves unless a deletion is in flight; while one
\* is in flight every key only ticks the spinner
AclKey(key) ==
  /\ aclView = "dialog"
  /\ aclCmd \in {"none", "queued"} \/ deleting
  /\ IF key = "esc" /\ ~deleting
     THEN /\ aclView' = "list"
          /\ UNCHANGED <<formState, formChoice, confirm, deleting, aclCmd, ticks>>
     ELSE IF deleting
     THEN /\ ticks < MaxTicks
          /\ ticks' = ticks + 1
          /\ UNCHANGED <<aclView, formState, formChoice, confirm, deleting, aclCmd>>
     ELSE /\ deleteCalls < MaxAclCalls
          /\ FormUpdate(key)
  /\ UNCHANGED <<clusterAcls, acl, aclBound, aclErr, deleteCalls>>

\* the command returned by deleteACL runs
RunDeleteACL(fail) ==
  /\ aclCmd = "queued"
  /\ deleteCalls' = deleteCalls + 1
  /\ clusterAcls' = DeleteACL(clusterAcls, acl, fail).acls
  /\ aclCmd' = IF DeleteACL(clusterAcls, acl, fail).err THEN "err" ELSE "ok"
  /\ UNCHANGED <<acl, aclBound, aclView, formState, formChoice, confirm, deleting, aclErr,
                 ticks>>

\* Update with the aclDeletedMsg
AclDeleted ==
  /\ aclView = "dialog"
  /\ aclCmd \in {"ok", "err"}
  /\ deleting' = FALSE
  /\ aclCmd' = "none"
  /\ aclErr' = (aclCmd = "err" \/ aclErr)
  /\ aclView' = IF aclCmd = "ok" THEN "list" ELSE aclView
  /\ UNCHANGED <<clusterAcls, acl, aclBound, formState, formChoice, confirm, ticks,
                 deleteCalls>>

\* Update with a spinner.TickMsg: the spinner goes on while deleting;
\* otherwise the message falls through to the form
SpinnerTick ==
  /\ aclView = "dialog"
  /\ ticks > 0
  /\ IF deleting
     THEN UNCHANGED <<aclView, formState, formChoice, confirm, deleting, aclCmd, ticks>>
     ELSE /\ deleteCalls < MaxAclCalls
          /\ aclCmd = "none"
          /\ formChoice' = formChoice
          /\ formState' = formState
          /\ confirm' = confirm
          /\ IF formState = "completed"
             THEN IF Confirmed(confirm)
                  THEN /\ deleting' = TRUE
                       /\ aclCmd' = "queued"
                       /\ ticks' = ticks
                       /\ UNCHANGED aclView
                  ELSE /\ aclView' = "list"
                       /\ ticks' = ticks - 1
                       /\ UNCHANGED <<deleting, aclCmd>>
             ELSE /\ ticks' = ticks - 1
                  /\ UNCHANGED <<aclView, deleting, aclCmd>>
  /\ UNCHANGED <<clusterAcls, acl, aclBound, aclErr, deleteCalls>>

AclInit ==
  /\ clusterAcls = Acls
  /\ acl = "r1"
  /\ aclBound = TRUE
  /\ aclView = "dialog"
  /\ formState = "normal"
  /\ formChoice = FALSE
  /\ confirm = FALSE
  /\ deleting = FALSE
  /\ aclErr = FALSE
  /\ aclCmd = "none"
  /\ ticks = 0
  /\ deleteCalls = 0

\* the dialog of either copy of the model, opened on any ACL of the list,
\* which the cluster may hold no more
AclInitAny ==
  /\ clusterAcls \in SUBSET Acls
  /\ acl \in Acls
  /\ aclBound \in BOOLEAN
  /\ aclView = "dialog"
  /\ formState = "normal"
  /\ formChoice = FALSE
  /\ confirm = FALSE
  /\ deleting = FALSE
  /\ aclErr = FALSE
  /\ aclCmd = "none"
  /\ ticks = 0
  /\ deleteCalls = 0

AclNext ==
  \/ \E key \in {"esc", "toggle", "enter", "other"} : AclKey(key)
  \/ \E fail \in BOOLEAN : RunDeleteACL(fail)
  \/ AclDeleted
  \/ SpinnerTick

\* ------------------------------------------- the assistant and its queries
\* AIAssistantModel.Update seen from the keyboard: the query typed, the
\* completion queries and the command executions under way, and the two
\* flags that gate Enter.
VARIABLES
  assistantOpen,  \* the assistant is the view on screen
  typed,          \* m.textarea.Value() != ""
  processing,     \* AIAssistantModel.processing
  showResponse,   \* AIAssistantModel.showResponse
  inFlight,       \* processAIQuery commands that have not returned
  executing,      \* command executions that have not returned
  started         \* completion queries started so far

queryVars == <<assistantOpen, typed, processing, showResponse, inFlight, executing, started>>

MaxQueries == 3         \* completion queries started in one run
MaxExecuting == 1       \* command executions under way at a time

\* the user types into the textarea
TypeQuery ==
  /\ assistantOpen /\ ~showResponse
  /\ ~typed
  /\ typed' = TRUE
  /\ UNCHANGED <<assistantOpen, processing, showResponse, inFlight, executing, started>>

\* if !m.processing && !m.showResponse
EnterAllowed(isProcessing, isShowing) == ~isProcessing /\ ~isShowing

\* case tea.KeyEnter
KeyEnter ==
  /\ assistantOpen
  /\ IF EnterAllowed(processing, showResponse) /\ typed
     THEN /\ started < MaxQueries
          /\ processing' = TRUE
          /\ inFlight' = inFlight + 1
          /\ started' = started + 1
     ELSE UNCHANGED <<processing, inFlight, started>>
  /\ UNCHANGED <<assistantOpen, typed, showResponse, executing>>

\* case tea.KeyEsc: back to the input, or out of the assistant
KeyEsc ==
  /\ assistantOpen
  /\ IF showResponse THEN showResponse' = FALSE /\ UNCHANGED assistantOpen
     ELSE assistantOpen' = FALSE /\ UNCHANGED showResponse
  /\ UNCHANGED <<typed, processing, inFlight, executing, started>>

\* case AIResponseMsg: the flags are set whatever the message answers, and
\* a text without error that holds commands starts their execution
HandleResponse(err, hasCommands) ==
  /\ processing' = FALSE
  /\ showResponse' = TRUE
  /\ executing' = executing + (IF ~err /\ hasCommands THEN 1 ELSE 0)

\* a completion query returns its AIResponseMsg
QueryReturns(err, hasCommands) ==
  /\ inFlight > 0
  /\ inFlight' = inFlight - 1
  /\ IF assistantOpen
     THEN /\ executing < MaxExecuting \/ err \/ ~hasCommands
          /\ HandleResponse(err, hasCommands)
     ELSE UNCHANGED <<processing, showResponse, executing>>
  /\ UNCHANGED <<assistantOpen, typed, started>>

\* a command execution returns its AIResponseMsg, handled like an answer
ExecutionReturns(err) ==
  /\ executing > 0
  /\ IF assistantOpen
     THEN /\ processing' = FALSE
          /\ showResponse' = TRUE
     ELSE UNCHANGED <<processing, showResponse>>
  /\ executing' = executing - 1
  /\ UNCHANGED <<assistantOpen, typed, inFlight, started>>

\* case "A", "a" of the list view: a new assistant model replaces the old
OpenAssistant ==
  /\ ~assistantOpen
  /\ assistantOpen' = TRUE
  /\ typed' = FALSE
  /\ processing' = FALSE
  /\ showResponse' = FALSE
  /\ UNCHANGED <<inFlight, executing, started>>

QueryInit ==
  /\ assistantOpen = TRUE
  /\ typed = FALSE
  /\ processing = FALSE
  /\ showResponse = FALSE
  /\ inFlight = 0
  /\ executing = 0
  /\ started = 0

QueryNext ==
  \/ TypeQuery
  \/ KeyEnter
  \/ KeyEsc
  \/ \E err \in BOOLEAN, hasCommands \in BOOLEAN : QueryReturns(err, hasCommands)
  \/ \E err \in BOOLEAN : ExecutionReturns(err)
  \/ OpenAssistant

\* ------------------------------------------------ the edit-config form
\* EditConfigModel: one form with one field bound to newValue, and the
\* configuration value it edits in the cluster.
VARIABLES
  editView,        \* Model.mode is EditConfigView
  currentValue,    \* EditConfigModel.currentValue
  newValue,        \* EditConfigModel.newValue, written by the form's field
  editFormState,   \* m.form.State: "normal" | "completed" | "aborted"
  submitted,       \* EditConfigModel.submitted
  editErr,         \* EditConfigModel.err is set
  clusterValue,    \* the value of the key in the cluster
  updateCalls,     \* UpdateTopicConfig calls made by this form
  switches,        \* SwitchToListViewMsg commands and timers under way
  edits            \* forms opened so far

editVars == <<editView, currentValue, newValue, editFormState, submitted, editErr,
              clusterValue, updateCalls, switches, edits>>

MaxEdits == 2            \* forms opened in one run
MaxUpdateCalls == 2      \* UpdateTopicConfig calls of one form
MaxSwitches == 2         \* view switches under way at a time

ConfigValues == {"", "a", "b"}

\* case "e", "E" of the list view: NewEditConfigModel with the raw value
OpenEditConfig ==
  /\ ~editView
  /\ edits < MaxEdits
  /\ edits' = edits + 1
  /\ editView' = TRUE
  /\ currentValue' = clusterValue
  /\ newValue' = ""
  /\ editFormState' = "normal"
  /\ submitted' = FALSE
  /\ editErr' = FALSE
  /\ updateCalls' = 0
  /\ UNCHANGED <<clusterValue, switches>>

\* if m.newValue == "" || m.newValue == m.currentValue
NoChange(new, current) == new = "" \/ new = current

\* case huh.StateCompleted
FormCompleted(fail) ==
  IF NoChange(newValue, currentValue)
  THEN /\ switches' = switches + 1
       /\ UNCHANGED <<submitted, editErr, clusterValue, updateCalls>>
  ELSE /\ updateCalls' = updateCalls + 1
       /\ switches' = switches + 1
       /\ IF fail
          THEN editErr' = TRUE /\ UNCHANGED <<submitted, clusterValue>>
          ELSE submitted' = TRUE /\ clusterValue' = newValue /\ UNCHANGED editErr

\* "esc" is taken before the form sees it
EditEsc ==
  /\ editView
  /\ switches < MaxSwitches
  /\ switches' = switches + 1
  /\ UNCHANGED <<editView, currentValue, newValue, editFormState, submitted, editErr,
                 clusterValue, updateCalls, edits>>

\* a key that changes the field of a form still being filled in
EditInput(value) ==
  /\ editView
  /\ editFormState = "normal"
  /\ newValue # value
  /\ newValue' = value
  /\ UNCHANGED <<editView, currentValue, editFormState, submitted, editErr,
                 clusterValue, updateCalls, switches, edits>>

\* the message that completes the form
EditSubmit(fail) ==
  /\ editView
  /\ editFormState = "normal"
  /\ switches < MaxSwitches
  /\ editFormState' = "completed"
  /\ FormCompleted(fail)
  /\ UNCHANGED <<editView, currentValue, newValue, edits>>

\* the message that aborts the form (ctrl+c)
EditAbort ==
  /\ editView
  /\ editFormState = "normal"
  /\ switches < MaxSwitches
  /\ editFormState' = "aborted"
  /\ switches' = switches + 1
  /\ UNCHANGED <<editView, currentValue, newValue, submitted, editErr,
                 clusterValue, updateCalls, edits>>

\* any other message while the form is over: the form stays as it is and
\* Update looks at its state again
EditOtherMsg(fail) ==
  /\ editView
  /\ editFormState # "normal"
  /\ switches < MaxSwitches
  /\ updateCalls < MaxUpdateCalls
  /\ IF editFormState = "completed"
     THEN FormCompleted(fail)
     ELSE /\ switches' = switches + 1
          /\ UNCHANGED <<submitted, editErr, clusterValue, updateCalls>>
  /\ UNCHANGED <<editView, currentValue, newValue, editFormState, edits>>

\* updateEditConfigView, case SwitchToListViewMsg; the list view drops it
SwitchToList ==
  /\ switches > 0
  /\ switches' = switches - 1
  /\ editView' = FALSE
  /\ UNCHANGED <<currentValue, newValue, editFormState, submitted, editErr,
                 clusterValue, updateCalls, edits>>

EditInit ==
  /\ editView = FALSE
  /\ currentValue = ""
  /\ newValue = ""
  /\ editFormState = "normal"
  /\ submitted = FALSE
  /\ editErr = FALSE
  /\ clusterValue = "a"
  /\ updateCalls = 0
  /\ switches = 0
  /\ edits = 0

EditInitAny ==
  /\ editView = FALSE
  /\ currentValue = ""
  /\ newValue = ""
  /\ editFormState = "normal"
  /\ submitted = FALSE
  /\ editErr = FALSE
  /\ clusterValue \in ConfigValues
  /\ updateCalls = 0
  /\ switches = 0
  /\ edits = 0

EditNext ==
  \/ OpenEditConfig
  \/ EditEsc
  \/ \E value \in ConfigValues : EditInput(value)
  \/ \E fail \in BOOLEAN : EditSubmit(fail)
  \/ EditAbort
  \/ \E fail \in BOOLEAN : EditOtherMsg(fail)
  \/ SwitchToList

\* --------------------------------------------------------- specifications
restVars == <<scanVars, searchVars, cacheVars, aclVars, queryVars, editVars>>

RestInit == ScanInit /\ SearchInit /\ CacheInit /\ AclInit /\ QueryInit /\ EditInit

priorVars == <<aiVars, dlgVars, consVars, lagVars, viewVars, timeVars, fbVars>>

PriorInit == AiInit /\ DlgInit /\ ConsInit /\ LagInit /\ ViewInit /\ TimeInit /\ FbInit

vars == <<aiVars, dlgVars, consVars, lagVars, viewVars, timeVars, fbVars, restVars>>

Init == AiInit /\ DlgInit /\ ConsInit /\ LagInit /\ ViewInit /\ TimeInit /\ FbInit /\ RestInit

AiNext ==
  \/ aiPc = "idle" /\ \E text \in Texts(MaxChunks) : ReceiveResponse(text)
  \/ BatchStep
  \/ BatchFinish
  \/ SingleExec

Next == AiNext /\ UNCHANGED <<dlgVars, consVars, lagVars, viewVars, timeVars, fbVars, restVars>>

\* the command interpreter
Spec == Init /\ [][Next]_vars

DialogNext ==
  DlgNext /\ UNCHANGED <<aiPc, aiResult, response, commands, stepIdx, responses, consVars, lagVars, viewVars, timeVars, fbVars, restVars>>

\* the topic-deletion dialog
SpecDialog == Init /\ [][DialogNext]_vars

ConsumeNext == ConsNext(MaxMsgs) /\ UNCHANGED <<aiVars, dlgVars, lagVars, viewVars, timeVars, fbVars, restVars>>

\* the multi-partition consumer
SpecConsume == Init /\ [][ConsumeNext]_vars

\* the scheduler keeps running the caller's goroutine, and Close returns
ConsumeFairNext == ConsNext(MaxFairMsgs) /\ UNCHANGED <<aiVars, dlgVars, lagVars, viewVars, timeVars, fbVars, restVars>>

SpecConsumeFair ==
  Init /\ [][ConsumeFairNext]_vars /\ WF_consVars(ConsumeMain)

InitAny == AiInitAny /\ DlgInit /\ ConsInit /\ LagInit /\ ViewInit /\ TimeInit /\ FbInit /\ RestInit

SingleNext ==
  /\ \/ aiPc = "idle" /\ \E text \in Texts(1) : ReceiveResponse(text)
     \/ SingleExec
  /\ UNCHANGED <<dlgVars, consVars, lagVars, viewVars, timeVars, fbVars, restVars>>

\* a response with one action object, on any cluster
SpecSingle == InitAny /\ [][SingleNext]_vars

LagQueryNext == lagPc = "idle" /\ LagNext /\ UNCHANGED <<aiVars, dlgVars, consVars, viewVars, timeVars, fbVars, restVars>>

\* the lag of a consumer group
SpecLag == Init /\ [][LagQueryNext]_vars

ViewStepNext ==
  /\ ViewNext
  /\ UNCHANGED <<aiVars, dlgVars, lagVars, timeVars, fbVars, scanVars, cacheVars, aclVars, queryVars, editVars, cPc, nParts, opened, closeIdx, cursor, closes,
                 task, delivered, lastPut, lateSends>>

\* the consumer view
SpecView == Init /\ [][ViewStepNext]_vars

InitTime == AiInit /\ DlgInit /\ ConsInit /\ LagInit /\ ViewInit /\ TimeInitAny /\ FbInit /\ RestInit

TimeNext == ParseTime /\ UNCHANGED <<aiVars, dlgVars, consVars, lagVars, viewVars, fbVars, restVars>>

\* parseTimeToMilliseconds on every string
SpecTime == InitTime /\ [][TimeNext]_vars

FeedbackAiNext ==
  \/ aiPc = "idle" /\ \E text \in Texts(MaxChunks) \cup EmbeddedTexts : ReceiveResponse(text)
  \/ BatchStep
  \/ BatchFinish
  \/ SingleExec

FeedbackNext ==
  /\ \/ FeedbackAiNext /\ UNCHANGED fbVars
     \/ ReceiveResult
  /\ UNCHANGED <<dlgVars, consVars, lagVars, viewVars, timeVars, restVars>>

\* the interpreter with the results of its executions delivered to Update
SpecFeedback == Init /\ [][FeedbackNext]_vars

InitScan == PriorInit /\ ScanInitAny /\ SearchInit /\ CacheInit /\ AclInit /\ QueryInit /\ EditInit

ScanNext == ScanStep /\ UNCHANGED <<priorVars, searchVars, cacheVars, aclVars, queryVars, editVars>>

\* the extraction loop on every response
SpecScan == InitScan /\ [][ScanNext]_vars

CacheStepNext == CacheNext /\ UNCHANGED <<priorVars, scanVars, searchVars, aclVars, queryVars, editVars>>

\* GetTopicDetails called again and again as time passes
SpecCache == Init /\ [][CacheStepNext]_vars

InitAcl == PriorInit /\ ScanInit /\ SearchInit /\ CacheInit /\ AclInitAny /\ QueryInit /\ EditInit

AclStepNext == AclNext /\ UNCHANGED <<priorVars, scanVars, searchVars, cacheVars, queryVars, editVars>>

\* the ACL delete dialog
SpecAcl == InitAcl /\ [][AclStepNext]_vars

QueryStepNext == QueryNext /\ UNCHANGED <<priorVars, scanVars, searchVars, cacheVars, aclVars, editVars>>

\* the assistant at the keyboard
SpecQuery == Init /\ [][QueryStepNext]_vars

InitEdit == PriorInit /\ ScanInit /\ SearchInit /\ CacheInit /\ AclInit /\ QueryInit /\ EditInitAny

EditStepNext == EditNext /\ UNCHANGED <<priorVars, scanVars, searchVars, cacheVars, aclVars, queryVars>>

\* the edit-config form over any value of the key
SpecEdit == InitEdit /\ [][EditStepNext]_vars

\* ================================================================ claims
BatchOver == aiPc = "shown" /\ Len(commands) > 1

\* a record for which the batch issues at least one client call
Dispatched(command) ==
  \/ command.action = "modify_partitions" /\ command.topic # "" /\ command.partitions > 0
  \/ command.action = "modify_config" /\ command.topic # "" /\ command.configs.has
       /\ StringKeys(command.configs.kv) # {}
  \/ command.action = "create_topic" /\ command.name # ""

StepCalled(j) == \E k \in 1..Len(calls) : calls[k].step = j

StepFailed(j) == \E k \in 1..Len(responses) :
                   responses[k].step = j /\ responses[k].result = "fail"

\* C1: in batch mode a failed step never stops the batch: every record of
\* the batch that comes after a step, failed or not, is still executed, so
\* when the batch is over every executable record has had its client call.
C1_FailureNeverStopsBatch ==
  /\ aiPc = "batch" =>
       \A j \in 1..Len(commands) :
         (j < stepIdx /\ Dispatched(commands[j])) => StepCalled(j)
  /\ BatchOver =>
       /\ stepIdx = Len(commands) + 1
       /\ \A j \in 1..Len(commands) : Dispatched(commands[j]) => StepCalled(j)

C1_Witness ==
  /\ BatchOver
  /\ StepFailed(1)
  /\ Dispatched(commands[2])
  /\ StepCalled(2)

\* C2: whatever the response, the interpreter issues no delete call to the
\* cluster, on the single-command path or on the batch path: every client
\* call is a create, a partition change, a config update or a query, and a
\* topic that exists keeps existing.
C2_InterpreterNeverDeletes ==
  /\ \A k \in 1..Len(calls) :
       calls[k].op \in {"CreateTopic", "ModifyTopicPartitions", "UpdateTopicConfig",
                        "GetTopicDetails", "GetTopicConfig", "GetConsumerGroups"}
  /\ topics["a"] > 0

HasDelete(cmds) == \E j \in 1..Len(cmds) : cmds[j].action = "delete_topic"

C2_Witness == BatchOver /\ HasDelete(commands) /\ calls # <<>>

C2_WitnessSingle == aiPc = "shown" /\ Len(commands) = 1 /\ HasDelete(commands)

\* C3: the batch result has exactly one entry per parsed action record.
C3_OneOutcomePerRecord == BatchOver => Len(responses) = Len(commands)

\* the bodies of the JSON objects of a text, in the order they appear
RECURSIVE BodiesOf(_)
BodiesOf(s) ==
  IF s = <<>> THEN <<>>
  ELSE (IF Head(s).t = "body" THEN <<Head(s).v>> ELSE <<>>) \o BodiesOf(Tail(s))

RECURSIVE IsSubsequence(_, _)
IsSubsequence(s, t) ==
  IF s = <<>> THEN TRUE
  ELSE IF t = <<>> THEN FALSE
  ELSE IF Head(s) = Head(t) THEN IsSubsequence(Tail(s), Tail(t))
  ELSE IsSubsequence(s, Tail(t))

ScalarsOf(cmds) ==
  [j \in 1..Len(cmds) |-> [action |-> cmds[j].action, name |-> cmds[j].name,
                           topic |-> cmds[j].topic, partitions |-> cmds[j].partitions]]

\* the call c is one that executing command issues
CallOf(c, command) ==
  \/ c.op = "CreateTopic" /\ command.action = "create_topic" /\ c.topic = command.name
  \/ c.op = "ModifyTopicPartitions" /\ command.action = "modify_partitions"
       /\ c.topic = command.topic
  \/ c.op = "UpdateTopicConfig" /\ command.configs.has
       /\ c.key \in StringKeys(command.configs.kv)
       /\ \/ command.action = "modify_config" /\ c.topic = command.topic
          \/ command.action = "create_topic" /\ c.topic = command.name

\* C4: the steps of a batch run one at a time in the order in which their
\* JSON objects appear in the response: the records are in order of
\* appearance, the calls of a step all come before the calls of the next
\* step, every call belongs to the record at its step's position, and the
\* result lines are in step order.
C4_StepsInParseOrder ==
  /\ IsSubsequence(ScalarsOf(commands), BodiesOf(response))
  /\ Len(commands) > 1 =>
       /\ \A j, k \in 1..Len(calls) : j < k => calls[j].step <= calls[k].step
       /\ \A k \in 1..Len(calls) :
            /\ calls[k].step \in 1..Len(commands)
            /\ calls[k].step <= stepIdx
            /\ CallOf(calls[k], commands[calls[k].step])
       /\ \A j, k \in 1..Len(responses) : j < k => responses[j].step < responses[k].step

C4_Witness ==
  /\ BatchOver
  /\ StepCalled(1) /\ StepCalled(2)
  /\ commands[1] # commands[2]

\* C5: the dialog issues the DeleteTopic call only on Enter on the Yes
\* button while the confirmation text is exactly the name of the topic to
\* delete; any other text, Esc and the No button issue nothing, and every
\* DeleteTopic call made is one of the commands so issued.
C5_DeleteOnlyOnExactName ==
  [][/\ dlgCmds' # dlgCmds /\ Len(dlgCmds') >= Len(dlgCmds) =>
          /\ dlgKey' = "enter"
          /\ focusedButton = 1
          /\ confirmInput = Chars(topicToDelete)
          /\ dlgCmds' = Append(dlgCmds, topicToDelete)
     /\ calls' # calls =>
          /\ Len(dlgCmds') = Len(dlgCmds) - 1
          /\ \E j \in 1..Len(dlgCmds) :
               calls' = Append(calls, Call("DeleteTopic", dlgCmds[j], "", 0,
                                           calls'[Len(calls')].err))]_vars

C5_Witness ==
  /\ calls # <<>>
  /\ calls[Len(calls)].op = "DeleteTopic"
  /\ ~calls[Len(calls)].err
  /\ topics["a"] = 0
  /\ dlgErr

TasksOver == \A p \in Partitions : task[p] \in {"none", "done"}

\* C6: when opening a partition fails, every task already started has
\* terminated and its cursor is closed by the time the error is returned.
C6_OpenFailureTearsDownTasks ==
  cPc = "retErr" =>
    /\ TasksOver
    /\ \A p \in Partitions : cursor[p] \in {"none", "closed"}

\* C7: for a topic with N partitions, once consumption is cancelled the call
\* closes the N partition cursors, each exactly once, and it returns; this
\* holds whether or not messages arrived before the cancellation.
C7_CancelClosesEveryCursor ==
  /\ [](cPc = "retNil" =>
          /\ ctxDone
          /\ opened = nParts
          /\ \A p \in Partitions :
               IF p < nParts THEN closes[p] = 1 /\ cursor[p] = "closed"
               ELSE closes[p] = 0 /\ cursor[p] = "none"
          /\ Cardinality({p \in Partitions : closes[p] = 1}) = nParts)
  /\ ((ctxDone /\ cPc \in {"wait", "cleanup"}) ~> (cPc = "retNil"))

C7_Witness ==
  /\ cPc = "retNil"
  /\ nParts = MaxParts
  /\ ~delivered
  /\ \A p \in Partitions : recvd[p] = 0 /\ closes[p] = 1

\* C8: once the context is cancelled every partition task forwards at most
\* one further message or error and then terminates.
C8_StopsWithinOneCycle ==
  \A p \in Partitions :
    /\ lateSends[p] <= 1
    /\ lateSends[p] = 1 => task[p] \in {"select", "done"}

\* C9: when consumption ends by cancellation, all partition tasks have
\* terminated before the consume call returns.
C9_TasksDoneBeforeReturn == cPc = "retNil" => TasksOver

\* C10: whenever the consume call returns an open error, no message of that
\* call has been put on the output channel.
C10_NoMessageBeforeOpenError == cPc = "retErr" => ~delivered

\* C11: while streaming, an error of a partition stream ends up as the error
\* sentinel on the output channel (unless the context is cancelled first); it
\* changes neither the caller's goroutine nor any other task, its own task
\* goes on with the next select, and the call returns an error only when a
\* partition could not be opened.
C11_StreamErrorInBand ==
  /\ [](cPc = "retErr" => opened < nParts \/ nParts = 0)
  /\ [][\A p \in Partitions :
          /\ task[p] = "select" /\ task'[p] = "sendErr" =>
                /\ cPc' = cPc
                /\ \A q \in Partitions \ {p} : task'[q] = task[q]
          /\ task[p] = "sendErr" /\ task'[p] # "sendErr" =>
                /\ cPc' = cPc
                /\ \A q \in Partitions \ {p} : task'[q] = task[q]
                /\ IF messageChan' # messageChan
                   THEN /\ messageChan' = Append(messageChan, ErrorSentinel)
                        /\ task'[p] = "select"
                   ELSE ctxDone /\ task'[p] = "done"]_vars

C11_Witness ==
  /\ cPc = "wait"
  /\ nParts = 1
  /\ ~ctxDone
  /\ messageChan = <<ErrorSentinel>>
  /\ task[0] = "sendMsg"

Committed(in) == {q \in LagPairs : in.committed[q].has}

\* the pair is not in the cluster metadata: its topic is gone or it is not
\* among the partitions of its topic
Stale(in, q) == q[1] \in in.topicErr \/ ~in.meta[q].found

\* the sum over the pairs of keep of max(0, highWaterMark - committedOffset)
RECURSIVE LagOver(_, _)
LagOver(in, keep) ==
  IF keep = {} THEN 0
  ELSE LET q == CHOOSE r \in keep : TRUE
           d == in.meta[q].hwm - in.committed[q].offset
       IN (IF d > 0 THEN d ELSE 0) + LagOver(in, keep \ {q})

\* every committed offset is non-negative and on an existing partition whose
\* high-water mark can be fetched
AllLive(in) ==
  /\ in.fail = "none"
  /\ \A q \in Committed(in) :
       in.committed[q].offset >= 0 /\ ~Stale(in, q) /\ ~in.meta[q].openFails

\* C13: for a group whose committed offsets are all non-negative and on
\* existing partitions, the lag is the sum over those partitions of
\* max(0, highWaterMark - committedOffset): h - c for a single partition with
\* h > c, and 0 when every committed offset equals its high-water mark.
C13_LagIsSumOfPositiveGaps ==
  lagPc = "done" /\ AllLive(lagIn) =>
    /\ lagResult.ConsumerLag = LagOver(lagIn, Committed(lagIn))
    /\ \A q \in LagPairs :
         Committed(lagIn) = {q} /\ lagIn.meta[q].hwm > lagIn.committed[q].offset =>
           lagResult.ConsumerLag = lagIn.meta[q].hwm - lagIn.committed[q].offset
    /\ (\A q \in Committed(lagIn) : lagIn.committed[q].offset = lagIn.meta[q].hwm) =>
         lagResult.ConsumerLag = 0

C13_Witness ==
  /\ lagPc = "done" /\ AllLive(lagIn)
  /\ Committed(lagIn) = LagPairs
  /\ lagIn.meta[<<"a", 0>>].hwm > lagIn.committed[<<"a", 0>>].offset
  /\ lagIn.meta[<<"a", 1>>].hwm < lagIn.committed[<<"a", 1>>].offset
  /\ lagIn.meta[<<"b", 0>>].hwm = MaxHwm /\ lagIn.committed[<<"b", 0>>].offset = 0
  /\ lagResult.ConsumerLag > MaxHwm

\* C14: a committed offset counts 0 when its partition is absent from the
\* cluster metadata or when it is negative, so the lag is the sum over the
\* other committed offsets, and it is 0 for a group whose committed offsets
\* are all on deleted topics.
C14_StaleAndNegativeCountZero ==
  (/\ lagPc = "done"
   /\ lagIn.fail = "none"
   /\ \A q \in Committed(lagIn) : ~lagIn.meta[q].openFails) =>
    /\ lagResult.ConsumerLag =
         LagOver(lagIn, {q \in Committed(lagIn) :
                          ~Stale(lagIn, q) /\ lagIn.committed[q].offset >= 0})
    /\ (\A q \in Committed(lagIn) : Stale(lagIn, q)) => lagResult.ConsumerLag = 0

C14_Witness ==
  /\ lagPc = "done" /\ lagIn.fail = "none"
  /\ Committed(lagIn) = LagPairs
  /\ lagIn.topicErr = {"b"} /\ lagIn.committed[<<"b", 0>>].offset = 0
  /\ lagIn.committed[<<"a", 0>>].offset = -1 /\ lagIn.meta[<<"a", 0>>].hwm = MaxHwm
  /\ lagIn.committed[<<"a", 1>>].offset = 1 /\ ~lagIn.meta[<<"a", 1>>].found
  /\ lagResult.ConsumerLag = 0

\* C15: a partition whose high-water mark cannot be fetched counts 0 and
\* the computation goes on: the lag returned is the sum over the other
\* partitions of the group.
C15_OpenFailureCountsZero ==
  lagPc = "done" /\ lagIn.fail = "none" =>
    /\ ~lagResult.err
    /\ lagResult.ConsumerLag =
         LagOver(lagIn, {q \in Committed(lagIn) :
                          /\ ~Stale(lagIn, q)
                          /\ ~lagIn.meta[q].openFails
                          /\ lagIn.committed[q].offset >= 0})

C15_Witness ==
  /\ lagPc = "done" /\ lagIn.fail = "none"
  /\ \E q, r \in Committed(lagIn) :
       /\ lagIn.meta[q].openFails /\ ~Stale(lagIn, q) /\ lagIn.committed[q].offset >= 0
       /\ ~lagIn.meta[r].openFails /\ ~Stale(lagIn, r)
       /\ lagIn.committed[r].offset = 0 /\ lagIn.meta[r].hwm = MaxHwm
  /\ lagResult.ConsumerLag >= MaxHwm

\* C16: when the committed-offset query of the group fails or the metadata
\* consumer cannot be created, the lag computation reports a failure to its
\* caller instead of a lag value.
C16_MetadataFailureIsReported ==
  lagPc = "done" /\ lagIn.fail # "none" => lagResult.err

\* the calls the step from this state to the next one has added
NewCalls == SubSeq(calls', Len(calls) + 1, Len(calls'))

\* the positions in cs of the ModifyTopicPartitions calls on topic t
ModifiesOf(cs, t) ==
  {k \in 1..Len(cs) : cs[k].op = "ModifyTopicPartitions" /\ cs[k].topic = t}

\* C17: modify_all_partitions with target N fetches the topics and then
\* issues one partition change for every topic with fewer than N
\* partitions, whether or not an earlier change failed, and none for a topic
\* that has N or more; it does not report an error.
C17_AllPartitionsSkipsAndContinues ==
  [][(/\ aiPc = "single" /\ aiPc' = "shown"
      /\ commands[1].action = "modify_all_partitions"
      /\ commands[1].partitions > 0) =>
       /\ NewCalls # <<>>
       /\ NewCalls[1].op = "GetTopicDetails"
       /\ ~NewCalls[1].err =>
            /\ aiResult' = "ok"
            /\ \A t \in TopicNames :
                 IF topics[t] > 0 /\ topics[t] < commands[1].partitions
                 THEN Cardinality(ModifiesOf(NewCalls, t)) = 1
                 ELSE ModifiesOf(NewCalls, t) = {}
            /\ Len(NewCalls) =
                 1 + Cardinality({t \in TopicNames :
                                    topics[t] > 0 /\ topics[t] < commands[1].partitions})]_vars

C17_Witness ==
  /\ aiPc = "shown"
  /\ Len(commands) = 1 /\ commands[1].action = "modify_all_partitions"
  /\ Len(calls) = 3
  /\ calls[2].op = "ModifyTopicPartitions" /\ calls[2].topic = "a" /\ calls[2].err
  /\ calls[3].op = "ModifyTopicPartitions" /\ calls[3].topic = "b" /\ ~calls[3].err
  /\ topics["b"] = commands[1].partitions

C17_WitnessSkip ==
  /\ aiPc = "shown"
  /\ Len(commands) = 1 /\ commands[1].action = "modify_all_partitions"
  /\ Len(calls) = 2
  /\ topics["a"] = commands[1].partitions
  /\ calls[2].op = "ModifyTopicPartitions" /\ calls[2].topic = "b" /\ ~calls[2].err

\* the kinds of record the interpreter knows
RecognizedKinds ==
  {"create_topic", "modify_partitions", "modify_all_partitions", "modify_config",
   "modify_all_configs", "query_topics", "query_consumer_groups"}

\* the calls of cs without the step they were issued in
Untagged(cs) ==
  [k \in 1..Len(cs) |->
     [op |-> cs[k].op, topic |-> cs[k].topic, key |-> cs[k].key, err |-> cs[k].err]]

\* C18: a step of a batch on a record of a recognized kind issues the calls
\* that executing that record alone issues on the same cluster.
C18_BatchStepSameAsSingle ==
  [][(/\ aiPc = "batch" /\ stepIdx' = stepIdx + 1
      /\ commands[stepIdx].action \in RecognizedKinds) =>
       \E keys \in ConfigOrders(commands[stepIdx]),
          fails \in SUBSET FailTargets(commands[stepIdx]) :
         Untagged(SingleDispatch(Cluster(topics, topicCfg, calls), commands[stepIdx],
                                 keys, fails).st.calls) = Untagged(calls')]_vars

\* the record lacks a field its kind requires
Invalid(command) ==
  \/ command.action = "modify_partitions"
       /\ (command.topic = "" \/ command.partitions <= 0)
  \/ command.action = "modify_config" /\ (command.topic = "" \/ ~command.configs.has)
  \/ command.action = "create_topic" /\ command.name = ""

\* C19: in a batch, a structurally invalid record has a failure outcome at
\* its own step.
C19_InvalidRecordFails ==
  BatchOver =>
    \A i \in 1..Len(commands) :
      Invalid(commands[i]) =>
        \E k \in 1..Len(responses) :
          responses[k].step = i /\ responses[k].result = "fail"

\* the action objects of a text, in order: an opening brace, the fields and
\* the closing brace, with or without a nested configs object
RECURSIVE ActionObjects(_)
ActionObjects(s) ==
  IF Len(s) < 3 THEN <<>>
  ELSE IF s[1].t = "{" /\ s[2].t = "body" /\ s[3].t = "}" THEN
         (IF s[2].v.action = "#missing" THEN <<>>
          ELSE <<[action |-> s[2].v.action, name |-> s[2].v.name, topic |-> s[2].v.topic,
                  partitions |-> s[2].v.partitions, configs |-> NoConfigs, filter |-> NoConfigs]>>)
         \o ActionObjects(SubSeq(s, 4, Len(s)))
  ELSE IF /\ Len(s) >= 6
          /\ s[1].t = "{" /\ s[2].t = "body" /\ s[3].t = "{"
          /\ s[4].t \in {"cfg", "flt"} /\ s[5].t = "}" /\ s[6].t = "}" THEN
         (IF s[2].v.action = "#missing" THEN <<>>
          ELSE <<[action |-> s[2].v.action, name |-> s[2].v.name, topic |-> s[2].v.topic,
                  partitions |-> s[2].v.partitions,
                  configs |-> IF s[4].t = "cfg" THEN [has |-> TRUE, kv |-> s[4].v]
                              ELSE NoConfigs,
                  filter |-> IF s[4].t = "flt" THEN [has |-> TRUE, kv |-> s[4].v]
                             ELSE NoConfigs]>>)
         \o ActionObjects(SubSeq(s, 7, Len(s)))
  ELSE ActionObjects(Tail(s))

\* C20: every well-formed action object of the response is extracted, in
\* order, whatever prose surrounds the objects.
C20_EveryObjectExtracted == aiPc # "idle" => commands = ActionObjects(response)

\* C21: a span that does not decode, or whose action is missing or is not a
\* recognized kind, is not counted as an action record.
C21_OnlyRecognizedRecordsCounted ==
  aiPc # "idle" =>
    /\ \A k \in 1..Len(commands) : commands[k].action \in RecognizedKinds
    /\ Len(commands) <= Len(BodiesOf(response))

\* the record the step from this state executes, in either mode
Executing ==
  IF aiPc = "batch" /\ stepIdx' = stepIdx + 1 THEN <<commands[stepIdx]>>
  ELSE IF aiPc = "single" /\ aiPc' = "shown" THEN <<commands[1]>>
  ELSE <<>>

\* C22: no step of the interpreter lowers the partition count of a topic,
\* and a modify_partitions whose target is at most the current count makes
\* one call, which is rejected, and leaves the topics as they were.
C22_PartitionsNeverDecrease ==
  [][/\ \A t \in TopicNames : topics'[t] >= topics[t]
     /\ \A k \in 1..Len(Executing) :
          LET command == Executing[k] IN
          (/\ command.action = "modify_partitions"
           /\ command.topic # "" /\ command.partitions > 0
           /\ command.partitions <= topics[command.topic]) =>
            /\ topics' = topics
            /\ Len(NewCalls) = 1
            /\ NewCalls[1].op = "ModifyTopicPartitions" /\ NewCalls[1].err]_vars

C22_Witness ==
  /\ BatchOver
  /\ Len(calls) = 2
  /\ calls[1].op = "ModifyTopicPartitions" /\ ~calls[1].err
  /\ calls[2].op = "ModifyTopicPartitions" /\ calls[2].err
  /\ commands[2].action = "modify_partitions"
  /\ commands[2].partitions < topics["a"]

\* the positions in cs of the GetTopicDetails calls
ListReads(cs) == {k \in 1..Len(cs) : cs[k].op = "GetTopicDetails"}

C23_WitnessPartitions ==
  /\ aiPc = "shown"
  /\ Len(commands) = 1 /\ commands[1].action = "modify_all_partitions"
  /\ Len(calls) = 3
  /\ calls[1].op = "GetTopicDetails"
  /\ ~calls[2].err /\ ~calls[3].err

\* the outcome the step from this state reports: the result of the single
\* command, or the last result line of the batch
Outcome ==
  IF aiPc = "single" THEN aiResult'
  ELSE IF Len(responses') > Len(responses) THEN responses'[Len(responses')].result
  ELSE ""

\* C24: a modify_config step, or a create_topic step with configs whose
\* topic was created, attempts every string-valued key whether or not an
\* earlier key failed, and when a key failed its outcome reports the
\* failures without being a failure.
C24_ConfigKeysIndependent ==
  [][\A j \in 1..Len(Executing) :
       LET command == Executing[j]
           target == IF command.action = "create_topic" THEN command.name
                     ELSE command.topic
           updates == {k \in 1..Len(NewCalls) : NewCalls[k].op = "UpdateTopicConfig"}
       IN (/\ command.action \in {"modify_config", "create_topic"}
           /\ command.configs.has
           /\ target # ""
           /\ command.action = "create_topic" =>
                NewCalls # <<>> /\ ~NewCalls[1].err) =>
            /\ \A key \in StringKeys(command.configs.kv) :
                 \E k \in updates : NewCalls[k].key = key /\ NewCalls[k].topic = target
            /\ (\E k \in updates : NewCalls[k].err) => Outcome = "partial"]_vars

\* the client calls that only read
ReadOnlyOps == {"GetTopicDetails", "GetTopicConfig", "GetConsumerGroups"}

\* C25: executing query_topics or query_consumer_groups, with or without a
\* filter, issues only reading calls and leaves the topics and their
\* configuration as they were.
C25_QueriesAreReadOnly ==
  [][\A j \in 1..Len(Executing) :
       Executing[j].action \in {"query_topics", "query_consumer_groups"} =>
         /\ topics' = topics
         /\ topicCfg' = topicCfg
         /\ \A k \in 1..Len(NewCalls) : NewCalls[k].op \in ReadOnlyOps]_vars

C25_Witness ==
  /\ aiPc = "shown"
  /\ Len(commands) = 1
  /\ commands[1].action = "query_topics" /\ commands[1].filter.has
  /\ Len(calls) = 5
  /\ \A k \in 2..5 : calls[k].op = "GetTopicConfig"

C25_WitnessGroups ==
  /\ aiPc = "shown"
  /\ Len(commands) = 1 /\ commands[1].action = "query_consumer_groups"
  /\ Len(calls) = 1 /\ calls[1].op = "GetConsumerGroups" /\ ~calls[1].err

\* the step is Update handling a messageReceivedMsg in normal mode
HandlesMessage == waiter = "msg" /\ waiter' # "msg" /\ consumerMode = "normal"

FailureHandled ==
  /\ reportPc = "sent"
  /\ \A i \in 1..Len(messageChan) : messageChan[i] # EmptyMessage
  /\ ~(waiter = "msg" /\ received = EmptyMessage)

\* C27: a consume call that fails to start while the view is not cancelled
\* is signalled to the view, and once the view has handled the signal its
\* error is set.
C27_StartFailureRecorded ==
  (FailureHandled /\ consumerMode = "normal") => consumerErr

C29_ConfigsOnlyAfterCreate ==
  [][\A j \in 1..Len(Executing) :
       LET command == Executing[j] IN
       (command.action = "create_topic" /\ command.name # "") =>
         /\ NewCalls # <<>>
         /\ NewCalls[1].op = "CreateTopic" /\ NewCalls[1].topic = command.name
         /\ NewCalls[1].err => Len(NewCalls) = 1
         /\ \A k \in 2..Len(NewCalls) :
              /\ NewCalls[k].op = "UpdateTopicConfig"
              /\ NewCalls[k].topic = command.name
              /\ topics'[command.name] > 0]_vars

\* a create_topic with configs whose create call failed: nothing followed
C29_Witness ==
  /\ aiPc = "shown"
  /\ Len(commands) = 1
  /\ commands[1].action = "create_topic" /\ commands[1].configs.has
  /\ StringKeys(commands[1].configs.kv) # {}
  /\ Len(calls) = 1 /\ calls[1].op = "CreateTopic" /\ calls[1].err

\* a create_topic whose create call succeeded, followed by its config update
C29_WitnessCreated ==
  /\ aiPc = "shown"
  /\ Len(commands) = 1 /\ commands[1].action = "create_topic"
  /\ Len(calls) >= 2
  /\ calls[1].op = "CreateTopic" /\ ~calls[1].err
  /\ calls[2].op = "UpdateTopicConfig" /\ calls[2].topic = commands[1].name

\* C30: a response of the model triggers at most one round of execution:
\* once Update has handled the result of an execution, that text is only
\* displayed and no command taken from it is waiting to run or running.
C30_ResultTextNotExecuted ==
  source = "result" => (commands = <<>> \/ aiPc = "done")

\* C31: every iteration of the extraction loop either leaves the loop or
\* goes on with a strictly shorter text, so the loop ends on every input.
C31_ScanShortensOrStops ==
  [][scanPc = "loop" => (scanPc' = "done" \/ Len(remaining') < Len(remaining))]_vars

\* the loop has ended after two objects were taken from the text
C31_Witness == scanPc = "done" /\ Len(scanned) = 2

\* the bytes of the keys and values of the messages of msgs
RECURSIVE SumBytes(_)
SumBytes(msgs) == IF msgs = <<>> THEN 0 ELSE Bytes(Head(msgs)) + SumBytes(Tail(msgs))

\* C32: the byte total of the consumer view is the sum of len(key) +
\* len(value) over the messages it holds.
C32_ByteTotalMatchesMessages == totalBytes = SumBytes(messages)

\* only the third message is held: the two before it were cleared, or
\* dropped while the view was paused
C32_Witness ==
  /\ Len(messages) = 1 /\ messages[1].kind = "msg" /\ messages[1].offset = 3
  /\ totalBytes = 3
  /\ recvd[0] = 3 /\ consuming

\* C33: while the filtered view is on and a term is being searched for, the
\* rows of the table are exactly the held messages that match the term.
C33_FilteredViewShowsMatches ==
  (showFiltered /\ searchTerm # "") => tableRows = MatchingIndices(messages, searchTerm)

\* C34: when there are search results, the current match is one of them.
C34_CurrentMatchInRange ==
  searchResults # <<>> => (0 <= currentMatch /\ currentMatch < Len(searchResults))

\* the step is a GetTopicDetails call
IsDetailCall == detailCalls' = detailCalls + 1

\* C35: a GetTopicDetails call made less than topicCacheDuration after the
\* last successful fetch does not query the cluster, and a call made later
\* than that does.
C35_CacheServesWithinDuration ==
  [][IsDetailCall =>
       /\ (cachedTopics # <<>> /\ clock - fetchedAt < topicCacheDuration)
            => queries' = queries
       /\ (cachedTopics = <<>> \/ clock - fetchedAt >= topicCacheDuration)
            => queries' = queries + 1]_vars

\* C36: DeleteACL is called only when the form has been completed with the
\* choice on yes; a dialog that is left without a deletion in flight makes
\* no call afterwards; and while a deletion is in flight the dialog is left
\* only by the message that ends it.
C36_DeleteOnlyAfterConfirm ==
  [][/\ deleteCalls' > deleteCalls =>
          (formState = "completed" /\ formChoice /\ aclView = "dialog" /\ deleting)
     /\ aclCmd' = "queued" => (formState' = "completed" /\ formChoice')
     /\ aclView = "list" => deleteCalls' = deleteCalls
     /\ deleteCalls' = deleteCalls => clusterAcls' = clusterAcls
     /\ (deleting /\ aclView' # aclView) => (aclCmd = "ok" /\ aclCmd' = "none")]_vars

\* a deletion was confirmed, failed, and the dialog is still open
C36_Witness ==
  /\ deleteCalls = 1 /\ aclErr /\ aclView = "dialog"
  /\ formState = "completed" /\ formChoice /\ ~deleting

\* the form was completed with Cancel and the dialog left without a call
C36_WitnessCancel ==
  aclView = "list" /\ formState = "completed" /\ ~formChoice /\ deleteCalls = 0

\* C37: the assistant has at most one completion query in flight, and Enter
\* starts none while one is being processed or a response is shown.
C37_OneQueryInFlight == inFlight <= 1

\* C38: a form completed with an empty value or with the current value makes
\* no UpdateTopicConfig call and returns to the list view; a form makes the
\* call exactly once, and only for a value that is non-empty and differs
\* from the current one.
C38_UpdateOnceWhenChanged ==
  /\ updateCalls <= 1
  /\ updateCalls > 0 => (newValue # "" /\ newValue # currentValue)
  /\ editFormState = "completed" =>
       IF newValue = "" \/ newValue = currentValue
       THEN updateCalls = 0 /\ (switches > 0 \/ ~editView)
       ELSE updateCalls >= 1

====
